---- MODULE Spec2Model ----
(***************************************************************************)
(* RepoGPT: the SQL search functions of server/database (vector search,   *)
(* hybrid search) over the code_chunks and file_summaries tables, and the  *)
(* hierarchical retrieval pipeline that calls them.                        *)
(*                                                                         *)
(* Conventions.  Scores are fixed-point integers: a similarity, a          *)
(* threshold and a keyword score are in hundredths (0.6 is 60), a weight   *)
(* is in tenths (0.7 is 7), so a combined score is in thousandths.         *)
(* A text is the sequence of its characters.  SQL NULL is SqlNull for a    *)
(* uuid or a number and NullText for a text.                               *)
(***************************************************************************)
EXTENDS Integers, Sequences, FiniteSets, TLC

(* ------------------------------ bounds -------------------------------- *)

\* file summaries of a repository whose stage 1 is examined on its own
MaxFiles == 3

\* rows of code_chunks
MaxChunks == 3
\* rows of file_summaries
MaxSummaries == 2
\* largest match_count a caller passes
MaxCount == 3
\* rows of file_dependencies
MaxDependencies == 2

(* --------------------------- SQL values ------------------------------- *)

SqlNull == "NULL"
NullText == <<"NULL">>

Repositories == {"r1", "r2"}
FilePaths == {"a.py", "b.py"}
\* query embeddings: vectors with an integer norm
QueryEmbeddings == {<<1, 0>>, <<0, 1>>}
\* query texts
QueryTexts == {<<"c", "a", "t">>, <<>>, NullText}
\* similarity thresholds, in hundredths
Thresholds == {50, 60}

(* ----------------------------- helpers -------------------------------- *)

Min(a, b) == IF a <= b THEN a ELSE b

Range(s) == {s[i] : i \in 1..Len(s)}

(* ------------------- pgvector: cosine distance <=> -------------------- *)

Dot(a, b) == a[1] * b[1] + a[2] * b[2]

Norm(a) == CHOOSE n \in 0..5 : n * n = Dot(a, a)

\* a <=> b, in hundredths: 1 - cos(a, b)
CosineDistance(a, b) == 100 - (100 * Dot(a, b)) \div (Norm(a) * Norm(b))

(* --------------------- pg_trgm: similarity(a, b) ---------------------- *)

\* the trigrams of a one-word text: the word padded with two blanks before
\* and one after, cut into every window of three characters
show_trgm(text) ==
  IF text = <<>> THEN {}
  ELSE LET padded == <<" ", " ">> \o text \o <<" ">>
       IN {SubSeq(padded, i, i + 2) : i \in 1..(Len(padded) - 2)}

\* a nullable number
Number(n) == [null |-> FALSE, value |-> n]
NullNumber == [null |-> TRUE, value |-> 0]

\* mutant: a text without trigrams matches every text
Mut_similarity_empty_matches(a, b) ==
  IF a = NullText \/ b = NullText THEN NullNumber
  ELSE LET ta == show_trgm(a)
           tb == show_trgm(b)
       IN IF ta = {} \/ tb = {} THEN Number(100)
          ELSE Number((100 * Cardinality(ta \cap tb)) \div Cardinality(ta \cup tb))

\* similarity(a, b), in hundredths; NULL when an argument is NULL (the function
\* is strict), 0 when a text has no trigram
similarity(a, b) ==
  IF a = NullText \/ b = NullText THEN NullNumber
  ELSE LET ta == show_trgm(a)
           tb == show_trgm(b)
       IN IF ta = {} \/ tb = {} THEN Number(0)
          ELSE Number((100 * Cardinality(ta \cap tb)) \div Cardinality(ta \cup tb))

COALESCE(v, d) == IF v.null THEN d ELSE v.value

(* ------------------------------ tables -------------------------------- *)

\* where a row may live: two files of r1 and one file of r2
Placements == <<(<<"r1", "a.py">>), (<<"r1", "b.py">>), (<<"r2", "a.py">>)>>
\* what a chunk may hold: its content and its embedding
ChunkProfiles ==
  <<(<<(<<"c", "a", "t", "s">>), (<<1, 0>>)>>),
    (<<(<<"c", "a", "t">>), (<<3, 4>>)>>)>>
\* what a file summary may hold: its summary and its embedding
SummaryProfiles ==
  <<(<<(<<"c", "a", "t", "s">>), (<<1, 0>>)>>),
    (<<(<<"c", "a", "t">>), (<<3, 4>>)>>)>>

\* a row's shape: its placement and its profile, by their numbers; the
\* numbering of the shapes gives every row its primary key
ChunkShapes == (1..Len(Placements)) \X (1..Len(ChunkProfiles))

ChunkRow(shape) ==
  [id |-> (shape[1] - 1) * Len(ChunkProfiles) + shape[2],
   repository_id |-> Placements[shape[1]][1],
   file_path |-> Placements[shape[1]][2],
   content |-> ChunkProfiles[shape[2]][1],
   start_line |-> 1,
   end_line |-> Len(ChunkProfiles[shape[2]][1]),
   embedding |-> ChunkProfiles[shape[2]][2]]

ChunkUniverse == {ChunkRow(s) : s \in ChunkShapes}

SummaryShapes == (1..Len(Placements)) \X (1..Len(SummaryProfiles))

SummaryRow(shape) ==
  [id |-> (shape[1] - 1) * Len(SummaryProfiles) + shape[2],
   repository_id |-> Placements[shape[1]][1],
   file_path |-> Placements[shape[1]][2],
   summary |-> SummaryProfiles[shape[2]][1],
   key_components |-> <<>>,
   embedding |-> SummaryProfiles[shape[2]][2]]

SummaryUniverse == {SummaryRow(s) : s \in SummaryShapes}

\* UNIQUE(repository_id, file_path)
UniqueFileSummaries(T) ==
  \A x, y \in T : (x.repository_id = y.repository_id /\ x.file_path = y.file_path) => x = y

ChunkTables == {T \in SUBSET ChunkUniverse : Cardinality(T) <= MaxChunks}

SummaryTables ==
  {T \in SUBSET SummaryUniverse : Cardinality(T) <= MaxSummaries /\ UniqueFileSummaries(T)}

\* file summaries for stage 1 on its own: three files of r1 and one of r2,
\* with a third embedding, orthogonal to the first
WidePlacements == Placements \o <<(<<"r1", "c.py">>)>>
WideProfiles == SummaryProfiles \o <<(<<(<<"d", "o", "g">>), (<<0, 1>>)>>)>>

WideShapes == (1..Len(WidePlacements)) \X (1..Len(WideProfiles))

WideSummaryRow(shape) ==
  [id |-> (shape[1] - 1) * Len(WideProfiles) + shape[2],
   repository_id |-> WidePlacements[shape[1]][1],
   file_path |-> WidePlacements[shape[1]][2],
   summary |-> WideProfiles[shape[2]][1],
   key_components |-> <<>>,
   embedding |-> WideProfiles[shape[2]][2]]

WideSummaryTables ==
  {T \in SUBSET {WideSummaryRow(sh) : sh \in WideShapes} :
     Cardinality(T) <= MaxFiles /\ UniqueFileSummaries(T)}

VARIABLES
  repositories,     \* the table repositories: the ids of its rows
  code_chunks,      \* the table code_chunks
  file_summaries,   \* the table file_summaries
  file_dependencies,\* the table file_dependencies
  match_code_chunks_def, \* which definition of match_code_chunks is in effect
  call,             \* the last search call: the function and its arguments
  result,           \* what that call returned
  call2,            \* a second execution: the same call, or one at a lower threshold
  result2,          \* what the second execution returned
  pc,               \* where a retrieve call stands
  req,              \* the retrieve call: query text, repository and options
  query_vector,     \* the embedding of the query text
  candidates,       \* F, the candidate file paths of stage 1
  stage2,           \* the ranked chunks of stage 2, deduplicated
  reranker,         \* how the reranker answered
  passages,         \* the passages handed to generation
  index_accesses,   \* the stages of the retrieve call that have queried the index
  outcome,          \* what the retrieve call returned
  embed_calls,      \* how many times the retrieve call has called the embedding provider
  \* the web client: Home
  currentSessionId, \* the chat session shown (sessionId in ChatInterface), or Null
  activeRepoId,     \* the repository attached, or Null
  activeFiles,      \* the files the last answer cited
  \* ChatInterface
  messages,         \* the messages displayed
  input,            \* the text of the chat input
  repoUrlInput,     \* the text of the repository URL input
  urlError,         \* the error shown under the URL input, or Null
  showRepoModal,    \* whether the Attach Repository modal is open
  isLoading,        \* a chat request is in progress
  isIngesting,      \* an ingestion request is in progress
  currentStatus,    \* the status line, or Null
  submits,          \* the handleSubmit calls that have not returned
  fetches,          \* the sessions fetchMessages is waiting for an answer on
  ingests,          \* the handleIngest calls that have not returned
  \* Sidebar
  sessions,         \* the sessions listed
  sessionToDelete,  \* the session the Delete Chat modal asks about, or Null
  isDeleting,       \* a DELETE request is in progress
  deletes,          \* the confirmDelete calls that have not returned
  \* the page
  ui_event,         \* the last event handled: what the user did, or an answer of a server
  submitted         \* how many chat requests have been sent

tables == <<repositories, code_chunks, file_summaries, file_dependencies, match_code_chunks_def>>
searchVars == <<call, result, call2, result2>>
retrieveVars == <<pc, req, query_vector, candidates, stage2, reranker, passages,
                  index_accesses, outcome, embed_calls>>
homeVars == <<currentSessionId, activeRepoId, activeFiles>>
chatVars == <<messages, input, isLoading, currentStatus, submits, fetches, submitted>>
repoVars == <<repoUrlInput, urlError, showRepoModal, isIngesting, ingests>>
sidebarVars == <<sessions, sessionToDelete, isDeleting, deletes>>
clientVars == <<homeVars, chatVars, repoVars, sidebarVars, ui_event>>
serverVars == <<tables, searchVars, retrieveVars>>
vars == <<serverVars, clientVars>>

(* ------------------------- SQL query pieces --------------------------- *)

\* a = b in a WHERE clause: NULL (not true) when either side is NULL
SqlEq(a, b) == a # SqlNull /\ b # SqlNull /\ a = b

\* ORDER BY key: every order of the rows S with non-decreasing key; rows of
\* equal key come in whatever order the executor produces them
RECURSIVE OrderBy(_, _)
OrderBy(S, key) ==
  IF S = {} THEN {<<>>}
  ELSE LET first == {x \in S : \A y \in S : key[x] <= key[y]}
       IN UNION {{<<x>> \o rest : rest \in OrderBy(S \ {x}, key)} : x \in first}

\* LIMIT n
Limit(s, n) == SubSeq(s, 1, Min(n, Len(s)))

Ok(rows) == [status |-> "ok", rows |-> rows]
\* ERROR: LIMIT must not be negative
Failed == [status |-> "error", rows |-> <<>>]

\* RETURN QUERY SELECT ... ORDER BY ... LIMIT match_count: the outcomes of one
\* execution, the rows S projected by row and ordered by key
\* (functions of the table's rows)
ReturnQuery(S, key, row, match_count) ==
  IF match_count < 0 THEN {Failed}
  ELSE {Ok(Limit([i \in 1..Len(s) |-> row[s[i]]], match_count)) :
          s \in OrderBy(S, [x \in S |-> key[x]])}

(* ----------------------- vector search functions ---------------------- *)

SummaryMatchRow(f, query_embedding) ==
  [id |-> f.id, file_path |-> f.file_path, summary |-> f.summary,
   key_components |-> f.key_components,
   similarity |-> 100 - CosineDistance(f.embedding, query_embedding)]

\* phase2_schema.sql creates match_code_chunks twice, with the same arguments
\* and two row types: with the line range (lines 193-224, "update original
\* match_code_chunks to also return line numbers") and without it (lines
\* 238-265).  CREATE OR REPLACE cannot change the row type of an existing
\* function, so the definition in effect is the one the database received
\* first: the original where it was there before the update, the update on
\* a database that runs the file from its first line.
WithLines == "with start_line, end_line"
WithoutLines == "without start_line, end_line"
MatchCodeChunksDefs == {WithLines, WithoutLines}

ChunkMatchRow(c, query_embedding) ==
  [id |-> c.id, content |-> c.content, file_path |-> c.file_path,
   start_line |-> c.start_line, end_line |-> c.end_line,
   similarity |-> 100 - CosineDistance(c.embedding, query_embedding)]

\* the row of the definition at lines 238-265
ChunkMatchRowWithoutLines(c, query_embedding) ==
  [id |-> c.id, content |-> c.content, file_path |-> c.file_path,
   similarity |-> 100 - CosineDistance(c.embedding, query_embedding)]

\* mutant: the threshold is compared with >=
Mut_match_file_summaries_at_threshold(query_embedding, match_threshold, match_count, repo_id) ==
  LET Key(f) == CosineDistance(f.embedding, query_embedding)
      Row(f) == SummaryMatchRow(f, query_embedding)
  IN ReturnQuery({f \in file_summaries :
                    /\ SqlEq(f.repository_id, repo_id)
                    /\ 100 - CosineDistance(f.embedding, query_embedding) >= match_threshold},
                 [x \in file_summaries |-> Key(x)], [x \in file_summaries |-> Row(x)], match_count)

match_file_summaries(query_embedding, match_threshold, match_count, repo_id) ==
  LET Key(f) == CosineDistance(f.embedding, query_embedding)
      Row(f) == SummaryMatchRow(f, query_embedding)
  IN ReturnQuery({f \in file_summaries :
                    /\ SqlEq(f.repository_id, repo_id)
                    /\ 100 - CosineDistance(f.embedding, query_embedding) > match_threshold},
                 [x \in file_summaries |-> Key(x)], [x \in file_summaries |-> Row(x)], match_count)

\* mutant: the file_paths filter is lost
Mut_match_code_chunks_in_files_any_file(query_embedding, match_threshold, match_count, repo_id, file_paths) ==
  LET Key(c) == CosineDistance(c.embedding, query_embedding)
      Row(c) == ChunkMatchRow(c, query_embedding)
  IN ReturnQuery({c \in code_chunks :
                    /\ SqlEq(c.repository_id, repo_id)
                    /\ 100 - CosineDistance(c.embedding, query_embedding) > match_threshold},
                 [x \in code_chunks |-> Key(x)], [x \in code_chunks |-> Row(x)], match_count)

\* how many times the array s lists x
Occurrences(s, x) == Cardinality({i \in 1..Len(s) : s[i] = x})

\* every row once per listing of its file path in the array
RECURSIVE PerListing(_, _)
PerListing(rows, file_paths) ==
  IF rows = <<>> THEN <<>>
  ELSE [i \in 1..Occurrences(file_paths, Head(rows).file_path) |-> Head(rows)]
         \o PerListing(Tail(rows), file_paths)

\* mutant: the chunks are joined with the array, one row per listing of the path
Mut_match_code_chunks_in_files_per_listing(query_embedding, match_threshold, match_count, repo_id, file_paths) ==
  LET Key(c) == CosineDistance(c.embedding, query_embedding)
      Row(c) == ChunkMatchRow(c, query_embedding)
      S == {c \in code_chunks :
              /\ SqlEq(c.repository_id, repo_id)
              /\ c.file_path \in Range(file_paths)
              /\ 100 - CosineDistance(c.embedding, query_embedding) > match_threshold}
  IN IF match_count < 0 THEN {Failed}
     ELSE {Ok(Limit(PerListing([i \in 1..Len(s) |-> Row(s[i])], file_paths), match_count)) :
             s \in OrderBy(S, [x \in S |-> Key(x)])}

match_code_chunks_in_files(query_embedding, match_threshold, match_count, repo_id, file_paths) ==
  LET Key(c) == CosineDistance(c.embedding, query_embedding)
      Row(c) == ChunkMatchRow(c, query_embedding)
  IN ReturnQuery({c \in code_chunks :
                    /\ SqlEq(c.repository_id, repo_id)
                    /\ c.file_path \in Range(file_paths)
                    /\ 100 - CosineDistance(c.embedding, query_embedding) > match_threshold},
                 [x \in code_chunks |-> Key(x)], [x \in code_chunks |-> Row(x)], match_count)

\* mutant: the threshold is compared with >=
Mut_match_code_chunks_at_threshold(query_embedding, match_threshold, match_count, repo_id) ==
  LET Key(c) == CosineDistance(c.embedding, query_embedding)
      Row(c) == ChunkMatchRow(c, query_embedding)
  IN ReturnQuery({c \in code_chunks :
                    /\ SqlEq(c.repository_id, repo_id)
                    /\ 100 - CosineDistance(c.embedding, query_embedding) >= match_threshold},
                 [x \in code_chunks |-> Key(x)], [x \in code_chunks |-> Row(x)], match_count)

\* mutant: ordered by similarity, lowest first
Mut_match_code_chunks_ascending(query_embedding, match_threshold, match_count, repo_id) ==
  LET Key(c) == 100 - CosineDistance(c.embedding, query_embedding)
      Row(c) == ChunkMatchRow(c, query_embedding)
  IN ReturnQuery({c \in code_chunks :
                    /\ SqlEq(c.repository_id, repo_id)
                    /\ 100 - CosineDistance(c.embedding, query_embedding) > match_threshold},
                 [x \in code_chunks |-> Key(x)], [x \in code_chunks |-> Row(x)], match_count)

\* mutant: no row found is raised as an error
Mut_match_code_chunks_strict(query_embedding, match_threshold, match_count, repo_id) ==
  LET Key(c) == CosineDistance(c.embedding, query_embedding)
      Row(c) == ChunkMatchRow(c, query_embedding)
      found == {c \in code_chunks :
                  /\ SqlEq(c.repository_id, repo_id)
                  /\ 100 - CosineDistance(c.embedding, query_embedding) > match_threshold}
  IN IF found = {} THEN {Failed} ELSE ReturnQuery(found, [x \in code_chunks |-> Key(x)], [x \in code_chunks |-> Row(x)], match_count)

match_code_chunks(query_embedding, match_threshold, match_count, repo_id) ==
  LET Key(c) == CosineDistance(c.embedding, query_embedding)
      Row(c) == IF match_code_chunks_def = WithLines
                THEN ChunkMatchRow(c, query_embedding)
                ELSE ChunkMatchRowWithoutLines(c, query_embedding)
  IN ReturnQuery({c \in code_chunks :
                    /\ SqlEq(c.repository_id, repo_id)
                    /\ 100 - CosineDistance(c.embedding, query_embedding) > match_threshold},
                 [x \in code_chunks |-> Key(x)], [x \in code_chunks |-> Row(x)], match_count)

(* ----------------------- hybrid search functions ---------------------- *)

\* the arguments are passed by name; one the caller leaves out takes the
\* declared default
Arg(args, name, default) == IF name \in DOMAIN args THEN args[name] ELSE default

DefaultKeywordWeight == 3
DefaultVectorWeight == 7
DefaultChunkMatchCount == 20
DefaultSummaryMatchCount == 10

\* mutant: the two weights are swapped in the combined score
Mut_ChunkHybridRow_swapped(c, query_embedding, query_text, keyword_weight, vector_weight) ==
  [id |-> c.id, content |-> c.content, file_path |-> c.file_path,
   start_line |-> c.start_line, end_line |-> c.end_line,
   vector_score |-> 100 - CosineDistance(c.embedding, query_embedding),
   keyword_score |-> COALESCE(similarity(c.content, query_text), 0),
   combined_score |->
     keyword_weight * (100 - CosineDistance(c.embedding, query_embedding))
       + vector_weight * COALESCE(similarity(c.content, query_text), 0)]

ChunkHybridRow(c, query_embedding, query_text, keyword_weight, vector_weight) ==
  [id |-> c.id, content |-> c.content, file_path |-> c.file_path,
   start_line |-> c.start_line, end_line |-> c.end_line,
   vector_score |-> 100 - CosineDistance(c.embedding, query_embedding),
   keyword_score |-> COALESCE(similarity(c.content, query_text), 0),
   combined_score |->
     vector_weight * (100 - CosineDistance(c.embedding, query_embedding))
       + keyword_weight * COALESCE(similarity(c.content, query_text), 0)]

SummaryHybridRow(f, query_embedding, query_text, keyword_weight, vector_weight) ==
  [id |-> f.id, file_path |-> f.file_path, summary |-> f.summary,
   key_components |-> f.key_components,
   vector_score |-> 100 - CosineDistance(f.embedding, query_embedding),
   keyword_score |-> COALESCE(similarity(f.summary, query_text), 0),
   combined_score |->
     vector_weight * (100 - CosineDistance(f.embedding, query_embedding))
       + keyword_weight * COALESCE(similarity(f.summary, query_text), 0)]

\* mutant: the repository filter is lost
Mut_hybrid_search_chunks_unscoped(args) ==
  LET query_embedding == args.query_embedding
      query_text == args.query_text
      keyword_weight == Arg(args, "keyword_weight", DefaultKeywordWeight)
      vector_weight == Arg(args, "vector_weight", DefaultVectorWeight)
      match_count == Arg(args, "match_count", DefaultChunkMatchCount)
      Row(c) == ChunkHybridRow(c, query_embedding, query_text, keyword_weight, vector_weight)
      Key(c) == 0 - Row(c).combined_score
  IN ReturnQuery(code_chunks, [x \in code_chunks |-> Key(x)], [x \in code_chunks |-> Row(x)], match_count)

hybrid_search_chunks(args) ==
  LET query_embedding == args.query_embedding
      query_text == args.query_text
      keyword_weight == Arg(args, "keyword_weight", DefaultKeywordWeight)
      vector_weight == Arg(args, "vector_weight", DefaultVectorWeight)
      match_count == Arg(args, "match_count", DefaultChunkMatchCount)
      repo_id == Arg(args, "repo_id", SqlNull)
      Row(c) == ChunkHybridRow(c, query_embedding, query_text, keyword_weight, vector_weight)
      \* ORDER BY combined_score DESC
      Key(c) == 0 - Row(c).combined_score
  IN ReturnQuery({c \in code_chunks : repo_id = SqlNull \/ SqlEq(c.repository_id, repo_id)},
                 [x \in code_chunks |-> Key(x)], [x \in code_chunks |-> Row(x)], match_count)

\* mutant: ranked by the vector score alone
Mut_hybrid_search_file_summaries_by_vector(args) ==
  LET query_embedding == args.query_embedding
      query_text == args.query_text
      keyword_weight == Arg(args, "keyword_weight", DefaultKeywordWeight)
      vector_weight == Arg(args, "vector_weight", DefaultVectorWeight)
      match_count == Arg(args, "match_count", DefaultSummaryMatchCount)
      repo_id == Arg(args, "repo_id", SqlNull)
      Row(f) == SummaryHybridRow(f, query_embedding, query_text, keyword_weight, vector_weight)
      Key(f) == 0 - Row(f).vector_score
  IN ReturnQuery({f \in file_summaries : repo_id = SqlNull \/ SqlEq(f.repository_id, repo_id)},
                 [x \in file_summaries |-> Key(x)], [x \in file_summaries |-> Row(x)], match_count)

hybrid_search_file_summaries(args) ==
  LET query_embedding == args.query_embedding
      query_text == args.query_text
      keyword_weight == Arg(args, "keyword_weight", DefaultKeywordWeight)
      vector_weight == Arg(args, "vector_weight", DefaultVectorWeight)
      match_count == Arg(args, "match_count", DefaultSummaryMatchCount)
      repo_id == Arg(args, "repo_id", SqlNull)
      Row(f) == SummaryHybridRow(f, query_embedding, query_text, keyword_weight, vector_weight)
      Key(f) == 0 - Row(f).combined_score
  IN ReturnQuery({f \in file_summaries : repo_id = SqlNull \/ SqlEq(f.repository_id, repo_id)},
                 [x \in file_summaries |-> Key(x)], [x \in file_summaries |-> Row(x)], match_count)

(* ------------------------------ calls --------------------------------- *)

NoCall == [fn |-> "none"]
NoResult == [status |-> "none", rows |-> <<>>]

\* the last array lists one path twice
FilePathArrays == {<<>>, <<"a.py">>, <<"b.py">>, <<"a.py", "b.py">>, <<"a.py", "a.py">>}
Counts == (0 - 1)..MaxCount
RepoArgs == Repositories \cup {SqlNull}
\* weights a caller passes, in tenths, as (keyword_weight, vector_weight)
WeightArgs == {<<5, 5>>}
\* the arguments of a hybrid search a caller may leave out
Omissions ==
  {{}, {"keyword_weight", "vector_weight"}, {"match_count"}, {"repo_id"},
   {"keyword_weight", "vector_weight", "match_count", "repo_id"}}

VectorCall(fn, q, t, n, repo) ==
  [fn |-> fn,
   args |-> [query_embedding |-> q, match_threshold |-> t, match_count |-> n,
             repo_id |-> repo]]

InFilesCall(q, t, n, repo, paths) ==
  [fn |-> "match_code_chunks_in_files",
   args |-> [query_embedding |-> q, match_threshold |-> t, match_count |-> n,
             repo_id |-> repo, file_paths |-> paths]]

HybridCall(fn, q, text, w, n, repo, omitted) ==
  LET all == [query_embedding |-> q, query_text |-> text, keyword_weight |-> w[1],
              vector_weight |-> w[2], match_count |-> n, repo_id |-> repo]
  IN [fn |-> fn, args |-> [name \in (DOMAIN all) \ omitted |-> all[name]]]

\* the outcomes of executing the call c against the tables as they are
Execute(c) ==
  CASE c.fn = "match_file_summaries" ->
         match_file_summaries(c.args.query_embedding, c.args.match_threshold,
                              c.args.match_count, c.args.repo_id)
    [] c.fn = "match_code_chunks" ->
         match_code_chunks(c.args.query_embedding, c.args.match_threshold,
                           c.args.match_count, c.args.repo_id)
    [] c.fn = "match_code_chunks_in_files" ->
         match_code_chunks_in_files(c.args.query_embedding, c.args.match_threshold,
                                    c.args.match_count, c.args.repo_id, c.args.file_paths)
    [] c.fn = "hybrid_search_chunks" -> hybrid_search_chunks(c.args)
    [] c.fn = "hybrid_search_file_summaries" -> hybrid_search_file_summaries(c.args)

\* A search is stateless: a behaviour is one call, and then possibly a second
\* execution of it to compare with the first.
CallMatchFileSummaries ==
  /\ call = NoCall
  /\ \E q \in QueryEmbeddings, t \in Thresholds, n \in Counts, repo \in RepoArgs :
       /\ call' = VectorCall("match_file_summaries", q, t, n, repo)
       /\ result' \in match_file_summaries(q, t, n, repo)
  /\ UNCHANGED <<tables, call2, result2, retrieveVars>>
  /\ UNCHANGED clientVars

\* mutant: the chunks returned are consumed (deleted from the table)
Mut_CallMatchCodeChunks_consumes ==
  /\ call = NoCall
  /\ \E q \in QueryEmbeddings, t \in Thresholds, n \in Counts, repo \in RepoArgs :
       /\ call' = VectorCall("match_code_chunks", q, t, n, repo)
       /\ result' \in match_code_chunks(q, t, n, repo)
       /\ code_chunks' = {c \in code_chunks :
                            \A i \in 1..Len(result'.rows) : result'.rows[i].id # c.id}
  /\ UNCHANGED <<repositories, file_summaries, file_dependencies, match_code_chunks_def,
                 call2, result2, retrieveVars>>
  /\ UNCHANGED clientVars

CallMatchCodeChunks ==
  /\ call = NoCall
  /\ \E q \in QueryEmbeddings, t \in Thresholds, n \in Counts, repo \in RepoArgs :
       /\ call' = VectorCall("match_code_chunks", q, t, n, repo)
       /\ result' \in match_code_chunks(q, t, n, repo)
  /\ UNCHANGED <<tables, call2, result2, retrieveVars>>
  /\ UNCHANGED clientVars

CallMatchCodeChunksInFiles ==
  /\ call = NoCall
  /\ \E q \in QueryEmbeddings, t \in Thresholds, n \in Counts, repo \in RepoArgs,
        paths \in FilePathArrays :
       /\ call' = InFilesCall(q, t, n, repo, paths)
       /\ result' \in match_code_chunks_in_files(q, t, n, repo, paths)
  /\ UNCHANGED <<tables, call2, result2, retrieveVars>>
  /\ UNCHANGED clientVars

CallHybridSearchChunks ==
  /\ call = NoCall
  /\ \E q \in QueryEmbeddings, text \in QueryTexts, w \in WeightArgs, n \in Counts,
        repo \in Repositories, omitted \in Omissions :
       /\ call' = HybridCall("hybrid_search_chunks", q, text, w, n, repo, omitted)
       /\ result' \in hybrid_search_chunks(call'.args)
  /\ UNCHANGED <<tables, call2, result2, retrieveVars>>
  /\ UNCHANGED clientVars

CallHybridSearchFileSummaries ==
  /\ call = NoCall
  /\ \E q \in QueryEmbeddings, text \in QueryTexts, w \in WeightArgs, n \in Counts,
        repo \in Repositories, omitted \in Omissions :
       /\ call' = HybridCall("hybrid_search_file_summaries", q, text, w, n, repo, omitted)
       /\ result' \in hybrid_search_file_summaries(call'.args)
  /\ UNCHANGED <<tables, call2, result2, retrieveVars>>
  /\ UNCHANGED clientVars

\* the same call once more, the tables unchanged
Repeat ==
  /\ call # NoCall
  /\ call2 = NoCall
  /\ call2' = call
  /\ result2' \in Execute(call)
  /\ UNCHANGED <<tables, call, result, retrieveVars>>
  /\ UNCHANGED clientVars

\* the same vector search once more at a lower threshold
RepeatLower ==
  /\ call.fn \in {"match_file_summaries", "match_code_chunks", "match_code_chunks_in_files"}
  /\ call2 = NoCall
  /\ \E t \in Thresholds :
       /\ t < call.args.match_threshold
       /\ call2' = [call EXCEPT !.args.match_threshold = t]
       /\ result2' \in Execute(call2')
  /\ UNCHANGED <<tables, call, result, retrieveVars>>
  /\ UNCHANGED clientVars

(* ------------------------ the two-stage retriever ---------------------- *)

\* the embedding provider: one vector per text, the same at every call
EmbeddingOf(text) == IF text = <<>> THEN <<0, 1>> ELSE <<1, 0>>

NoRequest == [mode |-> "none"]
NoVector == <<>>

\* retrieve(query_text, repository_id, options)
RetrieveRequests ==
  [query_text : {<<"c", "a", "t">>, <<>>},
   repository_id : {"r1"},
   mode : {"vector_only", "hybrid"},
   file_threshold : Thresholds,
   chunk_threshold : {50},
   file_cap : {1, MaxCount},
   chunk_cap : {1, MaxCount},
   \* the cap after reranking: none, or one passage
   final_cap : {{}, {1}}]

\* the rows of a sequence that satisfy Keep, in their order
RECURSIVE SelectRows(_, _)
SelectRows(s, keep) ==
  IF s = <<>> THEN <<>>
  ELSE (IF Head(s) \in keep THEN <<Head(s)>> ELSE <<>>) \o SelectRows(Tail(s), keep)

\* deduplicate by chunk identifier, keeping the first of each
RECURSIVE Dedup(_)
Dedup(s) ==
  IF s = <<>> THEN <<>>
  ELSE LET front == Dedup(SubSeq(s, 1, Len(s) - 1))
           last == s[Len(s)]
       IN IF \E i \in 1..Len(front) : front[i].id = last.id THEN front
          ELSE Append(front, last)

\* an array holding the file paths of the set F
RECURSIVE ArrayOf(_)
ArrayOf(F) ==
  IF F = {} THEN <<>>
  ELSE LET p == CHOOSE x \in F : TRUE
       IN <<p>> \o ArrayOf(F \ {p})

\* stage 1: the file summaries of the repository above the file threshold,
\* at most file_cap of them; in hybrid mode by combined score
Stage1(r, q) ==
  IF r.mode = "vector_only"
  THEN match_file_summaries(q, r.file_threshold, r.file_cap, r.repository_id)
  ELSE {Ok(SelectRows(o.rows, {x \in Range(o.rows) : x.combined_score > 10 * r.file_threshold})) :
          o \in hybrid_search_file_summaries(
                  [query_embedding |-> q, query_text |-> r.query_text,
                   match_count |-> r.file_cap, repo_id |-> r.repository_id])}

\* the score breakdown of a passage: a row of a hybrid search has it; a row
\* of a vector search, which has its similarity only, gets the vector score
\* from it, no keyword score, and the combined score at vector weight 1
ScoreFields == {"vector_score", "keyword_score", "combined_score"}

AsPassage(row) ==
  IF "combined_score" \in DOMAIN row THEN row
  ELSE [f \in DOMAIN row \cup ScoreFields |->
          CASE f = "vector_score" -> row.similarity
            [] f = "keyword_score" -> 0
            [] f = "combined_score" -> 10 * row.similarity
            [] OTHER -> row[f]]

AsPassages(o) == Ok([i \in 1..Len(o.rows) |-> AsPassage(o.rows[i])])

\* stage 2: the chunks of the repository above the chunk threshold, restricted
\* to the files of F, or unrestricted when F is empty
Stage2(r, q, F) ==
  IF r.mode = "vector_only"
  THEN IF F = {}
       THEN {AsPassages(o) :
               o \in match_code_chunks(q, r.chunk_threshold, r.chunk_cap, r.repository_id)}
       ELSE {AsPassages(o) :
               o \in match_code_chunks_in_files(q, r.chunk_threshold, r.chunk_cap,
                                                r.repository_id, ArrayOf(F))}
  ELSE {Ok(SelectRows(o.rows,
                      {x \in Range(o.rows) :
                         /\ x.combined_score > 10 * r.chunk_threshold
                         /\ F = {} \/ x.file_path \in F})) :
          o \in hybrid_search_chunks(
                  [query_embedding |-> q, query_text |-> r.query_text,
                   match_count |-> r.chunk_cap, repo_id |-> r.repository_id])}

\* the scores a cross-encoder may give the passages of a list: one score per
\* (query, passage) pair, no two alike
RerankScores(list) ==
  LET ids == {x.id : x \in Range(list)}
  IN {f \in [ids -> 1..Cardinality(ids)] : \A i, j \in ids : i # j => f[i] # f[j]}

\* mutant: the passage of lowest score is dropped
Mut_Rerank_drops_last(list, scores, final_cap) ==
  LET S == Range(list)
      sorted == CHOOSE s \in OrderBy(S, [x \in S |-> 0 - scores[x.id]]) : TRUE
      kept == SubSeq(sorted, 1, Len(sorted) - 1)
  IN IF final_cap = {} THEN kept ELSE Limit(kept, CHOOSE n \in final_cap : TRUE)

\* mutant: the final cap is applied to the stage-2 order, before the sort
Mut_Rerank_caps_first(list, scores, final_cap) ==
  LET capped == IF final_cap = {} THEN list ELSE Limit(list, CHOOSE n \in final_cap : TRUE)
      S == Range(capped)
  IN CHOOSE s \in OrderBy(S, [x \in S |-> 0 - scores[x.id]]) : TRUE

\* the passages by rerank score, highest first, cut to the final cap when
\* there is one
Rerank(list, scores, final_cap) ==
  LET S == Range(list)
      sorted == CHOOSE s \in OrderBy(S, [x \in S |-> 0 - scores[x.id]]) : TRUE
  IN IF final_cap = {} THEN sorted ELSE Limit(sorted, CHOOSE n \in final_cap : TRUE)

\* mutant: no passage is returned when the reranking model is unavailable
Mut_RerankFailSoft_empty(list) == <<>>

\* the reranking model is unavailable: the stage-2 order, unchanged
RerankFailSoft(list) == list

NotReranked == [status |-> "none", scores |-> <<>>]

\* what retrieve returns: the passages, a retryable failure, or nothing
\* because the caller cancelled
NoOutcome == [status |-> "none"]
Returned == [status |-> "ok"]
RetryableFailure(cause) == [status |-> "error", retryable |-> TRUE, cause |-> cause]
Cancelled == [status |-> "cancelled"]

Embed ==
  /\ pc = "embedding"
  /\ query_vector' = EmbeddingOf(req.query_text)
  /\ embed_calls' = embed_calls + 1
  /\ pc' = "stage1"
  /\ UNCHANGED <<tables, searchVars, req, candidates, stage2, reranker, passages,
                 index_accesses, outcome>>
  /\ UNCHANGED clientVars

\* the embedding provider fails, or does not answer within the timeout
EmbeddingFails ==
  /\ pc = "embedding"
  /\ \E cause \in {"provider error", "timeout"} : outcome' = RetryableFailure(cause)
  /\ embed_calls' = embed_calls + 1
  /\ pc' = "failed"
  /\ UNCHANGED <<tables, searchVars, req, query_vector, candidates, stage2, reranker,
                 passages, index_accesses>>
  /\ UNCHANGED clientVars

RunStage1 ==
  /\ pc = "stage1"
  /\ \E o \in Stage1(req, query_vector) :
       candidates' = {x.file_path : x \in Range(o.rows)}
  /\ index_accesses' = index_accesses \cup {"stage1"}
  /\ pc' = "stage2"
  /\ UNCHANGED <<tables, searchVars, req, query_vector, stage2, reranker, passages, outcome>>
  /\ UNCHANGED embed_calls
  /\ UNCHANGED clientVars

\* the caller cancels while stage 1 runs
CancelStage1 ==
  /\ pc = "stage1"
  /\ pc' = "cancelled"
  /\ outcome' = Cancelled
  /\ UNCHANGED <<tables, searchVars, req, query_vector, candidates, stage2, reranker,
                 passages, index_accesses>>
  /\ UNCHANGED embed_calls
  /\ UNCHANGED clientVars

\* mutant: stage 2 also runs after stage 1 was cancelled
Mut_RunStage2_after_cancel ==
  /\ pc \in {"stage2", "cancelled"}
  /\ \E o \in Stage2(req, query_vector, candidates) : stage2' = Dedup(o.rows)
  /\ index_accesses' = index_accesses \cup {"stage2"}
  /\ pc' = "rerank"
  /\ UNCHANGED <<tables, searchVars, req, query_vector, candidates, reranker, passages,
                 outcome>>
  /\ UNCHANGED embed_calls
  /\ UNCHANGED clientVars

\* mutant: stage 2 embeds the query text again
Mut_RunStage2_embeds_again ==
  /\ pc = "stage2"
  /\ query_vector' = EmbeddingOf(req.query_text)
  /\ embed_calls' = embed_calls + 1
  /\ \E o \in Stage2(req, query_vector', candidates) : stage2' = Dedup(o.rows)
  /\ index_accesses' = index_accesses \cup {"stage2"}
  /\ pc' = "rerank"
  /\ UNCHANGED <<tables, searchVars, req, candidates, reranker, passages, outcome>>
  /\ UNCHANGED clientVars

RunStage2 ==
  /\ pc = "stage2"
  /\ \E o \in Stage2(req, query_vector, candidates) : stage2' = Dedup(o.rows)
  /\ index_accesses' = index_accesses \cup {"stage2"}
  /\ pc' = "rerank"
  /\ UNCHANGED <<tables, searchVars, req, query_vector, candidates, reranker, passages,
                 outcome>>
  /\ UNCHANGED embed_calls
  /\ UNCHANGED clientVars

RunRerank ==
  /\ pc = "rerank"
  /\ \E scores \in RerankScores(stage2) :
       /\ reranker' = [status |-> "ok", scores |-> scores]
       /\ passages' = Rerank(stage2, scores, req.final_cap)
  /\ outcome' = Returned
  /\ pc' = "done"
  /\ UNCHANGED <<tables, searchVars, req, query_vector, candidates, stage2, index_accesses>>
  /\ UNCHANGED embed_calls
  /\ UNCHANGED clientVars

\* mutant: an unavailable reranker fails the call
Mut_RerankUnavailable_fails ==
  /\ pc = "rerank"
  /\ passages' = RerankFailSoft(stage2)
  /\ reranker' = [status |-> "unavailable", scores |-> <<>>]
  /\ outcome' = RetryableFailure("reranker unavailable")
  /\ pc' = "failed"
  /\ UNCHANGED <<tables, searchVars, req, query_vector, candidates, stage2, index_accesses>>
  /\ UNCHANGED embed_calls
  /\ UNCHANGED clientVars

RerankUnavailable ==
  /\ pc = "rerank"
  /\ passages' = RerankFailSoft(stage2)
  /\ reranker' = [status |-> "unavailable", scores |-> <<>>]
  /\ outcome' = Returned
  /\ pc' = "done"
  /\ UNCHANGED <<tables, searchVars, req, query_vector, candidates, stage2, index_accesses>>
  /\ UNCHANGED embed_calls
  /\ UNCHANGED clientVars

\* null, for a state of the client that holds no value
Null == "null"

NoEvent == [name |-> "none"]

\* the page as the components' useState calls leave it: nothing shown, no
\* request in progress (page.tsx 13-15, ChatInterface.tsx 40-48, Sidebar.tsx 24-27)
ClientIdle ==
  /\ currentSessionId = Null
  /\ activeRepoId = Null
  /\ activeFiles = <<>>
  /\ messages = <<>>
  /\ input = <<>>
  /\ repoUrlInput = <<>>
  /\ urlError = Null
  /\ showRepoModal = FALSE
  /\ isLoading = FALSE
  /\ isIngesting = FALSE
  /\ currentStatus = Null
  /\ submits = <<>>
  /\ fetches = {}
  /\ ingests = <<>>
  /\ sessions = <<>>
  /\ sessionToDelete = Null
  /\ isDeleting = FALSE
  /\ deletes = <<>>
  /\ ui_event = NoEvent
  /\ submitted = 0

NoSearch == call = NoCall /\ result = NoResult /\ call2 = NoCall /\ result2 = NoResult

\* nothing retrieved yet
NotStarted ==
  /\ query_vector = NoVector
  /\ candidates = {}
  /\ stage2 = <<>>
  /\ reranker = NotReranked
  /\ passages = <<>>
  /\ index_accesses = {}
  /\ outcome = NoOutcome
  /\ embed_calls = 0

\* every repository exists, no dependency is recorded, and match_code_chunks
\* is the definition with the line range
Installed ==
  /\ repositories = Repositories
  /\ file_dependencies = {}
  /\ match_code_chunks_def = WithLines

\* A search function reads one table only: the other is left empty.
Init ==
  /\ Installed
  /\ \/ code_chunks \in ChunkTables /\ file_summaries = {}
     \/ code_chunks = {} /\ file_summaries \in SummaryTables
  /\ NoSearch
  /\ pc = "idle"
  /\ req = NoRequest
  /\ NotStarted
  /\ ClientIdle

Next ==
  \/ CallMatchFileSummaries
  \/ CallMatchCodeChunks
  \/ CallMatchCodeChunksInFiles
  \/ CallHybridSearchChunks
  \/ CallHybridSearchFileSummaries
  \/ Repeat
  \/ RepeatLower

Spec == Init /\ [][Next]_vars

\* retrieve(query_text, repository_id, options) has been called
InitRetrieve ==
  /\ Installed
  /\ code_chunks \in ChunkTables
  /\ file_summaries \in SummaryTables
  /\ NoSearch
  /\ pc = "embedding"
  /\ req \in RetrieveRequests
  /\ NotStarted
  /\ ClientIdle

NextRetrieve ==
  \/ Embed
  \/ EmbeddingFails
  \/ RunStage1
  \/ CancelStage1
  \/ RunStage2
  \/ RunRerank
  \/ RerankUnavailable

SpecRetrieve == InitRetrieve /\ [][NextRetrieve]_vars

\* retrieve has been called on a repository of up to MaxFiles summarised
\* files, no chunk indexed yet
Stage1Requests ==
  [query_text : {<<"c", "a", "t">>, <<>>},
   repository_id : {"r1"},
   mode : {"vector_only", "hybrid"},
   file_threshold : Thresholds,
   chunk_threshold : {50},
   file_cap : 1..MaxCount,
   chunk_cap : {MaxCount},
   final_cap : {{}}]

InitStage1 ==
  /\ Installed
  /\ code_chunks = {}
  /\ file_summaries \in WideSummaryTables
  /\ NoSearch
  /\ pc = "embedding"
  /\ req \in Stage1Requests
  /\ NotStarted
  /\ ClientIdle

SpecStage1 == InitStage1 /\ [][NextRetrieve]_vars

\* retrieve has been called on a database where either definition of
\* match_code_chunks is in effect
InitPassages ==
  /\ repositories = Repositories
  /\ file_dependencies = {}
  /\ match_code_chunks_def \in MatchCodeChunksDefs
  /\ code_chunks \in ChunkTables
  /\ file_summaries \in SummaryTables
  /\ NoSearch
  /\ pc = "embedding"
  /\ req \in {r \in RetrieveRequests :
                /\ r.file_threshold = 50
                /\ r.file_cap = MaxCount /\ r.chunk_cap = MaxCount
                /\ r.final_cap = {}}
  /\ NotStarted
  /\ ClientIdle

SpecPassages == InitPassages /\ [][NextRetrieve]_vars

\* one database, a retrieve call in progress on it, and search calls issued
\* by other clients in between its steps
InitConcurrent ==
  /\ Installed
  /\ code_chunks = {ChunkRow(<<1, 1>>), ChunkRow(<<2, 2>>), ChunkRow(<<3, 1>>)}
  /\ file_summaries = {SummaryRow(<<1, 1>>), SummaryRow(<<2, 2>>)}
  /\ NoSearch
  /\ pc = "embedding"
  /\ req \in {r \in RetrieveRequests :
                /\ r.file_threshold = 50
                /\ r.file_cap = MaxCount /\ r.chunk_cap = MaxCount
                /\ r.final_cap = {}}
  /\ NotStarted
  /\ ClientIdle

NextConcurrent == Next \/ NextRetrieve

SpecConcurrent == InitConcurrent /\ [][NextConcurrent]_vars

(* ============================== claims ================================= *)

VectorFns == {"match_file_summaries", "match_code_chunks", "match_code_chunks_in_files"}
HybridFns == {"hybrid_search_chunks", "hybrid_search_file_summaries"}

\* the table a search function reads
TableOf(fn) ==
  IF fn \in {"match_file_summaries", "hybrid_search_file_summaries"}
  THEN file_summaries ELSE code_chunks

Ids(S) == {e.id : e \in S}
RowIds(rows) == {rows[i].id : i \in 1..Len(rows)}
Stored(fn, id) == CHOOSE e \in TableOf(fn) : e.id = id

CosineSimilarity(e, q) == 100 - CosineDistance(e.embedding, q)

\* the stored entities a vector search is asked about: those of its repository
\* (and of its files), and among them those above its threshold
InScope(c) ==
  {e \in TableOf(c.fn) :
     /\ e.repository_id = c.args.repo_id
     /\ c.fn = "match_code_chunks_in_files" => e.file_path \in Range(c.args.file_paths)}

AboveThreshold(c) ==
  {e \in InScope(c) : CosineSimilarity(e, c.args.query_embedding) > c.args.match_threshold}

C2_CombinedScore ==
  (call.fn \in HybridFns /\ result.status = "ok") =>
    LET alpha == IF "vector_weight" \in DOMAIN call.args THEN call.args.vector_weight ELSE 7
        beta == IF "keyword_weight" \in DOMAIN call.args THEN call.args.keyword_weight ELSE 3
    IN \A i \in 1..Len(result.rows) :
         LET e == Stored(call.fn, result.rows[i].id)
             text == IF call.fn = "hybrid_search_chunks" THEN e.content ELSE e.summary
         IN /\ result.rows[i].vector_score = CosineSimilarity(e, call.args.query_embedding)
            /\ result.rows[i].keyword_score = COALESCE(similarity(text, call.args.query_text), 0)
            /\ result.rows[i].combined_score =
                 alpha * result.rows[i].vector_score + beta * result.rows[i].keyword_score

\* default weights, and a row whose two scores differ and are not zero
C2_Witness ==
  /\ call.fn = "hybrid_search_chunks"
  /\ "vector_weight" \notin DOMAIN call.args
  /\ result.status = "ok"
  /\ \E i \in 1..Len(result.rows) :
       /\ result.rows[i].keyword_score > 0
       /\ result.rows[i].vector_score > result.rows[i].keyword_score

\* C5, as claimed: the entities returned at a threshold are among those
\* returned by the same search at a lower threshold.
C5_ThresholdMonotone ==
  (/\ call.fn \in VectorFns
   /\ call2 # NoCall
   /\ call2.args.match_threshold < call.args.match_threshold
   /\ result.status = "ok"
   /\ result2.status = "ok")
  => RowIds(result.rows) \subseteq RowIds(result2.rows)

\* C6, as claimed: the same search twice against the same tables returns the
\* same rows in the same order.
C6_Deterministic ==
  (call # NoCall /\ call2 = call) => result2 = result

\* the repository a call names: NULL when it names none
RepoArg(c) == IF "repo_id" \in DOMAIN c.args THEN c.args.repo_id ELSE SqlNull

\* C9, as claimed: however the repository argument is passed or left out, the
\* entities a search returns are all of one repository, the one passed.
C9_OneRepositoryAlways ==
  (call # NoCall /\ result.status = "ok") =>
    /\ \A i, j \in 1..Len(result.rows) :
         Stored(call.fn, result.rows[i].id).repository_id
           = Stored(call.fn, result.rows[j].id).repository_id
    /\ RepoArg(call) # SqlNull =>
         \A i \in 1..Len(result.rows) :
           Stored(call.fn, result.rows[i].id).repository_id = RepoArg(call)

\* C9, amended: a search called with a repository R returns entities of R
\* only; a vector search called with NULL returns nothing.  (A hybrid search
\* called without a repository searches every repository.)
C9_RepositoryScoping ==
  (call # NoCall /\ result.status = "ok") =>
    /\ RepoArg(call) # SqlNull =>
         \A i \in 1..Len(result.rows) :
           /\ result.rows[i].id \in Ids(TableOf(call.fn))
           /\ Stored(call.fn, result.rows[i].id).repository_id = RepoArg(call)
    /\ (RepoArg(call) = SqlNull /\ call.fn \in VectorFns) => result.rows = <<>>

\* a hybrid search for r1 returns a chunk while r2 holds chunks too
C9_Witness ==
  /\ call.fn = "hybrid_search_chunks"
  /\ RepoArg(call) = "r1"
  /\ result.status = "ok"
  /\ Len(result.rows) >= 1
  /\ \E c \in code_chunks : c.repository_id = "r2"

\* the cap a call passes or takes by default
MatchCountOf(c) ==
  IF "match_count" \in DOMAIN c.args THEN c.args.match_count
  ELSE IF c.fn = "hybrid_search_chunks" THEN 20 ELSE 10

\* the stored entities a call can return
CandidatesOf(c) ==
  IF c.fn \in VectorFns THEN AboveThreshold(c)
  ELSE {e \in TableOf(c.fn) : RepoArg(c) = SqlNull \/ e.repository_id = RepoArg(c)}

\* C10: a search with a cap (a match_count that is not negative) over a
\* repository with no indexed entity, or with no entity above the threshold,
\* succeeds with the empty sequence, which is not the outcome of a failed
\* call; a call fails only for a negative match_count.
C10_EmptyIsNotAnError ==
  call # NoCall =>
    /\ (MatchCountOf(call) >= 0 /\ CandidatesOf(call) = {}) =>
         /\ result.status = "ok"
         /\ result.rows = <<>>
         /\ result # Failed
    /\ result.status = "error" => MatchCountOf(call) < 0
    /\ result.status \in {"ok", "error"}

\* the repository holds chunks, none above the threshold
C10_Witness ==
  /\ call.fn = "match_code_chunks"
  /\ call.args.match_count > 0
  /\ InScope(call) # {}
  /\ AboveThreshold(call) = {}
  /\ result = Ok(<<>>)

(* ----------------------- claims on the retriever ----------------------- *)

\* the chunks of the repository a retrieve call is for
ChunksOfRepository == {c \in code_chunks : c.repository_id = req.repository_id}

\* the score stage 2 ranks a stored chunk by, and the score a chunk must
\* exceed: the cosine similarity in hundredths in vector-only mode, the
\* combined score in thousandths in hybrid mode
Stage2Score(c) ==
  IF req.mode = "vector_only" THEN CosineSimilarity(c, query_vector)
  ELSE 7 * CosineSimilarity(c, query_vector)
         + 3 * COALESCE(similarity(c.content, req.query_text), 0)

Stage2Limit == IF req.mode = "vector_only" THEN req.chunk_threshold ELSE 10 * req.chunk_threshold

ReportedScore(row) == IF req.mode = "vector_only" THEN row.similarity ELSE row.combined_score

\* C3: when stage 1 yields a candidate file set F that is not empty, every
\* chunk of stage 2, and so every passage, is a chunk of the repository in a
\* file of F, in vector-only mode and in hybrid mode.
C3_Stage2WithinCandidates ==
  (pc \in {"rerank", "done"} /\ candidates # {}) =>
    /\ \A i \in 1..Len(stage2) :
         /\ stage2[i].file_path \in candidates
         /\ stage2[i].id \in Ids(ChunksOfRepository)
         /\ Stored("match_code_chunks", stage2[i].id).file_path = stage2[i].file_path
    /\ \A i \in 1..Len(passages) : passages[i].file_path \in candidates

\* stage 2 returned a chunk while a chunk of the repository above the
\* threshold lies in a file outside F
C3_Witness ==
  /\ pc = "rerank"
  /\ req.mode = "vector_only"
  /\ candidates # {}
  /\ stage2 # <<>>
  /\ \E c \in ChunksOfRepository :
       /\ c.file_path \notin candidates
       /\ Stage2Score(c) > Stage2Limit

\* C4: a repository without file summaries gives an empty F; and when F is
\* empty, stage 2 is the unscoped search: the top chunk_cap of all the chunks
\* of the repository above the chunk threshold, ranked by score (all three of
\* three such chunks when the cap allows three).
C4_FallbackUnscoped ==
  /\ (pc \in {"stage2", "rerank", "done"}
        /\ ~(\E f \in file_summaries : f.repository_id = req.repository_id))
       => candidates = {}
  /\ (pc \in {"rerank", "done"} /\ candidates = {}) =>
       LET above == {c \in ChunksOfRepository : Stage2Score(c) > Stage2Limit}
       IN /\ Len(stage2) = Min(req.chunk_cap, Cardinality(above))
          /\ (Cardinality(above) = 3 /\ req.chunk_cap >= 3) => Len(stage2) = 3
          /\ \A i \in 1..Len(stage2) :
               /\ stage2[i].id \in Ids(above)
               /\ ReportedScore(stage2[i])
                    = Stage2Score(Stored("match_code_chunks", stage2[i].id))
          /\ \A i, j \in 1..Len(stage2) :
               /\ i < j => ReportedScore(stage2[i]) >= ReportedScore(stage2[j])
               /\ i # j => stage2[i].id # stage2[j].id
          /\ \A c \in above : c.id \notin RowIds(stage2) =>
               \A i \in 1..Len(stage2) : Stage2Score(c) <= ReportedScore(stage2[i])

\* no file summary, three chunks above the threshold in two files, all three
\* returned by score
C4_Witness ==
  /\ pc = "rerank"
  /\ req.mode = "vector_only"
  /\ file_summaries = {}
  /\ candidates = {}
  /\ Len(stage2) = 3
  /\ stage2[1].similarity > stage2[3].similarity
  /\ stage2[1].file_path # stage2[2].file_path

\* the cap after reranking, when the call gives one
HasFinalCap == req.final_cap # {}
FinalCap == CHOOSE n \in req.final_cap : TRUE

\* C7: the passages after reranking are passages of the stage-2 list, each at
\* most once; without a final cap they are as many as the stage-2 list (a
\* permutation of it), with a final cap N they are min(N, length) of them.
C7_RerankKeepsMembership ==
  pc = "done" =>
    /\ \A i \in 1..Len(passages) : passages[i] \in Range(stage2)
    /\ \A i, j \in 1..Len(passages) : i # j => passages[i].id # passages[j].id
    /\ ~HasFinalCap => Len(passages) = Len(stage2)
    /\ (HasFinalCap /\ reranker.status = "ok") =>
         Len(passages) = Min(FinalCap, Len(stage2))

\* the reranker has reordered a list of two or more passages, uncapped
C7_Witness ==
  /\ pc = "done"
  /\ reranker.status = "ok"
  /\ ~HasFinalCap
  /\ Len(stage2) >= 2
  /\ passages # stage2
  /\ Range(passages) = Range(stage2)

\* C8: when the reranking model is unavailable the call still completes and
\* returns, and its passages are the stage-2 list in the stage-2 order.
C8_RerankFailSoft ==
  reranker.status = "unavailable" =>
    (pc = "done" /\ outcome = Returned /\ passages = stage2)

\* the reranker was unavailable for a list of two or more passages
C8_Witness ==
  /\ pc = "done"
  /\ reranker.status = "unavailable"
  /\ Len(stage2) >= 2
  /\ passages = stage2

(* --------------------- ingestion and destruction ---------------------- *)

\* the dependency records ingestion may insert
DependencyUniverse ==
  {[id |-> 1, repository_id |-> "r1", source_file_path |-> "a.py",
    target_module |-> "b", dependency_type |-> "import"],
   [id |-> 2, repository_id |-> "r1", source_file_path |-> "b.py",
    target_module |-> "os", dependency_type |-> "import"],
   [id |-> 3, repository_id |-> "r2", source_file_path |-> "a.py",
    target_module |-> "os", dependency_type |-> "from"]}

\* the chunks ingestion inserts here: one per file
IngestedChunks == {ChunkRow(<<p, 1>>) : p \in 1..Len(Placements)}

\* repository_id is a nullable column: a chunk row that names no repository
UnownedChunk ==
  [ChunkRow(<<1, 1>>) EXCEPT !.id = Len(Placements) * Len(ChunkProfiles) + 1,
                             !.repository_id = SqlNull]

\* the rows an INSERT INTO code_chunks may carry
InsertableChunks == IngestedChunks \cup {UnownedChunk}

Statement(fn, arg) == [fn |-> fn, args |-> [row |-> arg]]

\* PRIMARY KEY
ViolatesPrimaryKey(T, row) == \E x \in T : x.id = row.id
\* REFERENCES repositories: a row may not name a repository that does not exist
ViolatesForeignKey(row) ==
  row.repository_id # SqlNull /\ row.repository_id \notin repositories
\* UNIQUE(repository_id, file_path)
ViolatesUnique(T, row) ==
  \E x \in T : SqlEq(x.repository_id, row.repository_id) /\ x.file_path = row.file_path

InsertRepository ==
  \E r \in Repositories :
    /\ call' = Statement("insert_repository", [id |-> r])
    /\ IF r \in repositories
       THEN result' = Failed /\ UNCHANGED repositories
       ELSE result' = Ok(<<>>) /\ repositories' = repositories \cup {r}
    /\ UNCHANGED <<code_chunks, file_summaries, file_dependencies, match_code_chunks_def,
                   call2, result2, retrieveVars>>
    /\ UNCHANGED clientVars

InsertCodeChunk ==
  \E row \in InsertableChunks :
    /\ call' = Statement("insert_code_chunk", row)
    /\ IF ViolatesPrimaryKey(code_chunks, row) \/ ViolatesForeignKey(row)
       THEN result' = Failed /\ UNCHANGED code_chunks
       ELSE result' = Ok(<<>>) /\ code_chunks' = code_chunks \cup {row}
    /\ UNCHANGED <<repositories, file_summaries, file_dependencies, match_code_chunks_def,
                   call2, result2, retrieveVars>>
    /\ UNCHANGED clientVars

\* mutant: the table has no UNIQUE(repository_id, file_path)
Mut_InsertFileSummary_not_unique ==
  /\ Cardinality(file_summaries) < MaxSummaries
  /\ \E row \in SummaryUniverse :
       /\ call' = Statement("insert_file_summary", row)
       /\ IF ViolatesPrimaryKey(file_summaries, row) \/ ViolatesForeignKey(row)
          THEN result' = Failed /\ UNCHANGED file_summaries
          ELSE result' = Ok(<<>>) /\ file_summaries' = file_summaries \cup {row}
  /\ UNCHANGED <<repositories, code_chunks, file_dependencies, match_code_chunks_def,
                 call2, result2, retrieveVars>>
  /\ UNCHANGED clientVars

InsertFileSummary ==
  /\ Cardinality(file_summaries) < MaxSummaries
  /\ \E row \in SummaryUniverse :
       /\ call' = Statement("insert_file_summary", row)
       /\ IF \/ ViolatesPrimaryKey(file_summaries, row)
             \/ ViolatesForeignKey(row)
             \/ ViolatesUnique(file_summaries, row)
          THEN result' = Failed /\ UNCHANGED file_summaries
          ELSE result' = Ok(<<>>) /\ file_summaries' = file_summaries \cup {row}
  /\ UNCHANGED <<repositories, code_chunks, file_dependencies, match_code_chunks_def,
                 call2, result2, retrieveVars>>
  /\ UNCHANGED clientVars

InsertFileDependency ==
  /\ Cardinality(file_dependencies) < MaxDependencies
  /\ \E row \in DependencyUniverse :
       /\ call' = Statement("insert_file_dependency", row)
       /\ IF ViolatesPrimaryKey(file_dependencies, row) \/ ViolatesForeignKey(row)
          THEN result' = Failed /\ UNCHANGED file_dependencies
          ELSE result' = Ok(<<>>) /\ file_dependencies' = file_dependencies \cup {row}
  /\ UNCHANGED <<repositories, code_chunks, file_summaries, match_code_chunks_def,
                 call2, result2, retrieveVars>>
  /\ UNCHANGED clientVars

\* the rows of T that do not reference repository r
NotOf(T, r) == {x \in T : x.repository_id # r}

\* mutant: file_dependencies is not declared ON DELETE CASCADE
Mut_DeleteRepository_keeps_dependencies ==
  \E r \in Repositories :
    /\ call' = Statement("delete_repository", [id |-> r])
    /\ result' = Ok(<<>>)
    /\ repositories' = repositories \ {r}
    /\ code_chunks' = NotOf(code_chunks, r)
    /\ file_summaries' = NotOf(file_summaries, r)
    /\ UNCHANGED <<file_dependencies, match_code_chunks_def, call2, result2, retrieveVars>>
    /\ UNCHANGED clientVars

\* DELETE FROM repositories WHERE id = r, with ON DELETE CASCADE on the
\* repository_id of code_chunks, file_summaries and file_dependencies
DeleteRepository ==
  \E r \in Repositories :
    /\ call' = Statement("delete_repository", [id |-> r])
    /\ result' = Ok(<<>>)
    /\ repositories' = repositories \ {r}
    /\ code_chunks' = NotOf(code_chunks, r)
    /\ file_summaries' = NotOf(file_summaries, r)
    /\ file_dependencies' = NotOf(file_dependencies, r)
    /\ UNCHANGED <<match_code_chunks_def, call2, result2, retrieveVars>>
    /\ UNCHANGED clientVars

\* an empty database
InitSchema ==
  /\ repositories = {}
  /\ code_chunks = {}
  /\ file_summaries = {}
  /\ file_dependencies = {}
  /\ match_code_chunks_def = WithLines
  /\ NoSearch
  /\ pc = "idle"
  /\ req = NoRequest
  /\ NotStarted
  /\ ClientIdle

NextSchema ==
  \/ InsertRepository
  \/ InsertCodeChunk
  \/ InsertFileSummary
  \/ InsertFileDependency
  \/ DeleteRepository

SpecSchema == InitSchema /\ [][NextSchema]_vars

(* ------------------------- claims on stage 1 -------------------------- *)

SummariesOfRepository == {f \in file_summaries : f.repository_id = req.repository_id}

\* the score stage 1 ranks a stored file summary by, and the score it must
\* exceed (hundredths in vector-only mode, thousandths in hybrid mode)
Stage1Score(f) ==
  IF req.mode = "vector_only" THEN CosineSimilarity(f, query_vector)
  ELSE 7 * CosineSimilarity(f, query_vector)
         + 3 * COALESCE(similarity(f.summary, req.query_text), 0)

Stage1Limit == IF req.mode = "vector_only" THEN req.file_threshold ELSE 10 * req.file_threshold

SummariesAbove == {f \in SummariesOfRepository : Stage1Score(f) > Stage1Limit}

VectorWeightOf(c) ==
  IF "vector_weight" \in DOMAIN c.args THEN c.args.vector_weight ELSE 7

\* C12: a hybrid search with the empty string as query text (and a
\* match_count that is not negative) succeeds; every row has keyword_score 0
\* and combined_score = vector_weight * vector_score, and the rows are in
\* non-increasing vector_score order.
C12_EmptyTextHybrid ==
  (/\ call.fn \in HybridFns
   /\ call.args.query_text = <<>>
   /\ MatchCountOf(call) >= 0) =>
    /\ result.status = "ok"
    /\ \A i \in 1..Len(result.rows) :
         /\ result.rows[i].keyword_score = 0
         /\ result.rows[i].combined_score = VectorWeightOf(call) * result.rows[i].vector_score
    /\ \A i, j \in 1..Len(result.rows) :
         i < j => result.rows[i].vector_score >= result.rows[j].vector_score

\* the empty text against two chunks of different vector score
C12_Witness ==
  /\ call.fn = "hybrid_search_chunks"
  /\ call.args.query_text = <<>>
  /\ result.status = "ok"
  /\ Len(result.rows) >= 2
  /\ result.rows[1].vector_score > result.rows[2].vector_score
  /\ result.rows[2].vector_score > 0

\* the weight a hybrid call gives the keyword score: the one passed, or 0.3
KeywordWeightOf(c) ==
  IF "keyword_weight" \in DOMAIN c.args THEN c.args.keyword_weight ELSE 3

\* the combined score of a stored entity for a hybrid call, in thousandths
CombinedScoreOf(c, e) ==
  LET text == IF c.fn = "hybrid_search_chunks" THEN e.content ELSE e.summary
  IN VectorWeightOf(c) * CosineSimilarity(e, c.args.query_embedding)
       + KeywordWeightOf(c) * COALESCE(similarity(text, c.args.query_text), 0)

\* C19: a hybrid search that succeeds returns at most match_count rows (as
\* many as the scope has, up to match_count), in non-increasing
\* combined_score order, the top ones of its scope by combined score; a row
\* ranks above a row of higher vector_score only with a higher keyword_score
\* and a combined_score at least as high.
C19_HybridRankingAndCap ==
  (call.fn \in HybridFns /\ result.status = "ok") =>
    LET rows == result.rows
        scope == CandidatesOf(call)
    IN /\ Len(rows) <= MatchCountOf(call)
       /\ Len(rows) = Min(MatchCountOf(call), Cardinality(scope))
       /\ \A i \in 1..Len(rows) :
            /\ rows[i].id \in Ids(scope)
            /\ rows[i].combined_score = CombinedScoreOf(call, Stored(call.fn, rows[i].id))
       /\ \A i, j \in 1..Len(rows) :
            /\ i < j => rows[i].combined_score >= rows[j].combined_score
            /\ i # j => rows[i].id # rows[j].id
            /\ (i < j /\ rows[i].vector_score < rows[j].vector_score) =>
                 KeywordWeightOf(call) * rows[i].keyword_score
                   > KeywordWeightOf(call) * rows[j].keyword_score
       /\ \A e \in scope : e.id \notin RowIds(rows) =>
            \A i \in 1..Len(rows) : CombinedScoreOf(call, e) <= rows[i].combined_score

\* the cap leaves an entity of the scope out, and the first row has a lower
\* vector score than the second
C19_Witness ==
  /\ call.fn \in HybridFns
  /\ result.status = "ok"
  /\ Len(result.rows) = 2
  /\ Cardinality(CandidatesOf(call)) = 3
  /\ result.rows[1].vector_score < result.rows[2].vector_score
  /\ result.rows[1].combined_score > result.rows[2].combined_score

(* ------------------------- claims on the frame ------------------------ *)

\* C13: no step of a search function or of a retrieve call changes a stored
\* row (repositories, code chunks, file summaries, dependencies), and
\* whatever other calls ran in between, the result of a search call and of
\* each stage of a retrieve call is a result the same call gives on its own
\* against the stored data.
C13_ReadOnly ==
  /\ [][tables' = tables]_vars
  /\ [](call # NoCall => result \in Execute(call))
  /\ [](call2 # NoCall => result2 \in Execute(call2))
  /\ [](pc \in {"stage2", "rerank", "done"} =>
          \E o \in Stage1(req, query_vector) :
            candidates = {x.file_path : x \in Range(o.rows)})
  /\ [](pc \in {"rerank", "done"} =>
          \E o \in Stage2(req, query_vector, candidates) : stage2 = Dedup(o.rows))

\* a retrieve call has completed with passages while two search calls of
\* other clients ran on the same chunks
C13_Witness ==
  /\ pc = "done"
  /\ passages # <<>>
  /\ call.fn = "match_code_chunks"
  /\ call2 # NoCall
  /\ result.rows # <<>>
  /\ result2.rows # <<>>

(* ------------------ claims on the steps of retrieve ------------------- *)

\* the steps a retrieve call may take, as (from, to)
StageOrder ==
  {<<"embedding", "stage1">>, <<"embedding", "failed">>,
   <<"stage1", "stage2">>, <<"stage1", "cancelled">>,
   <<"stage2", "rerank">>, <<"rerank", "done">>}

\* C14: stage 2 queries the index only after stage 1 has completed and never
\* after stage 1 was cancelled, the reranker runs only after stage 2 has
\* completed, and passages are returned only after the reranker has answered
\* or was found unavailable.
C14_StageOrdering ==
  /\ [][/\ pc' # pc => <<pc, pc'>> \in StageOrder
        /\ candidates' # candidates => (pc = "stage1" /\ pc' = "stage2")
        /\ index_accesses' # index_accesses => pc \in {"stage1", "stage2"}
        /\ "stage2" \in index_accesses' \ index_accesses =>
             (pc = "stage2" /\ "stage1" \in index_accesses)
        /\ reranker' # reranker => (pc = "rerank" /\ "stage2" \in index_accesses)
        /\ passages' # passages => pc = "rerank"
        /\ pc = "cancelled" => UNCHANGED vars]_vars
  /\ [](pc = "cancelled" =>
          ("stage2" \notin index_accesses /\ reranker = NotReranked /\ passages = <<>>))
  /\ [](outcome = Returned =>
          (pc = "done" /\ reranker.status \in {"ok", "unavailable"}
             /\ index_accesses = {"stage1", "stage2"}))

\* a call that ran both stages and the reranker and returned passages
C14_Witness ==
  /\ pc = "done"
  /\ outcome = Returned
  /\ candidates # {}
  /\ Len(passages) >= 2
  /\ reranker.status = "ok"

\* C15: when the embedding provider fails or times out, the call queries the
\* index in no stage, stays failed, and has returned a retryable failure,
\* which is not the outcome of a call that returns no passage; and a call
\* whose reranker was unavailable has returned, not failed.
C15_EmbeddingFailureFatal ==
  /\ [](pc = "failed" =>
          /\ outcome.status = "error"
          /\ outcome.retryable
          /\ outcome # Returned
          /\ index_accesses = {}
          /\ candidates = {} /\ stage2 = <<>> /\ passages = <<>>
          /\ reranker = NotReranked)
  /\ [][pc = "failed" => UNCHANGED vars]_vars
  /\ [](outcome.status = "error" => pc = "failed")
  /\ [](reranker.status = "unavailable" => outcome = Returned)

\* the embedding provider timed out
C15_Witness ==
  /\ pc = "failed"
  /\ outcome = RetryableFailure("timeout")

\* C20: when the reranker answers, the passages are in non-increasing order
\* of its scores, whatever the stage-2 order was, and every passage the final
\* cap leaves out has a score no higher than the passages kept.
C20_RerankOrdering ==
  (pc = "done" /\ reranker.status = "ok") =>
    /\ \A i, j \in 1..Len(passages) :
         i < j => reranker.scores[passages[i].id] >= reranker.scores[passages[j].id]
    /\ \A x \in Range(stage2) : x \notin Range(passages) =>
         \A i \in 1..Len(passages) : reranker.scores[x.id] <= reranker.scores[passages[i].id]

\* a final cap of one passage keeps a passage that was not first in the
\* stage-2 order
C20_Witness ==
  /\ pc = "done"
  /\ reranker.status = "ok"
  /\ HasFinalCap
  /\ Len(stage2) >= 2
  /\ Len(passages) = 1
  /\ passages[1] # stage2[1]

(* ---------------------- claims on the stored data --------------------- *)

C17_CascadingDelete ==
  /\ [](\A x \in code_chunks \cup file_summaries \cup file_dependencies :
          x.repository_id # SqlNull => x.repository_id \in repositories)
  /\ [][\A r \in Repositories :
          (r \in repositories /\ r \notin repositories') =>
            /\ repositories' = repositories \ {r}
            /\ code_chunks' = NotOf(code_chunks, r)
            /\ file_summaries' = NotOf(file_summaries, r)
            /\ file_dependencies' = NotOf(file_dependencies, r)
            /\ \A x \in code_chunks' \cup file_summaries' \cup file_dependencies' :
                 x.repository_id # r]_vars

\* r1 has been deleted, and r2 still has a chunk, a summary and a dependency
C17_Witness ==
  /\ call = Statement("delete_repository", [id |-> "r1"])
  /\ repositories = {"r2"}
  /\ \E x \in code_chunks : x.repository_id = "r2"
  /\ \E x \in file_summaries : x.repository_id = "r2"
  /\ \E x \in file_dependencies : x.repository_id = "r2"

(* ------------------------ claims on the passages ---------------------- *)

PassageFields == {"content", "file_path", "start_line", "end_line"} \cup ScoreFields

\* C18, as claimed: every passage a retrieve call returns, with or without
\* candidate files and in either mode, carries content, file path, start
\* line, end line, vector_score, keyword_score and combined_score.
C18_PassagesCarryFields ==
  pc = "done" =>
    \A i \in 1..Len(passages) : PassageFields \subseteq DOMAIN passages[i]

(* ---------------------- claims on deduplication ----------------------- *)

\* no two rows of the sequence have the same chunk identifier
DistinctIds(rows) == \A i, j \in 1..Len(rows) : rows[i].id = rows[j].id => i = j

\* C21: the passages retrieve returns, and the chunks of stage 2 they are
\* taken from, never hold the same chunk identifier twice, whether stage 2
\* was restricted to the candidate files or fell back to the whole
\* repository; and a search restricted to an array of file paths returns
\* every chunk once however many times the array lists its path, so that
\* deduplicating its rows changes nothing.
C21_NoDuplicatePassages ==
  /\ DistinctIds(stage2)
  /\ DistinctIds(passages)
  /\ \A c \in {<<call, result>>, <<call2, result2>>} :
       c[1].fn = "match_code_chunks_in_files" =>
         /\ DistinctIds(c[2].rows)
         /\ Dedup(c[2].rows) = c[2].rows

\* retrieve has returned two passages, and a search restricted to an array
\* that lists a.py twice has returned a chunk of a.py
C21_Witness ==
  /\ pc = "done"
  /\ Len(passages) >= 2
  /\ call.fn = "match_code_chunks_in_files"
  /\ call.args.file_paths = <<"a.py", "a.py">>
  /\ result.rows # <<>>

(* ------------------------ claims on ownership ------------------------- *)

\* C22: every code chunk references one repository, which exists, and has one
\* file path; no chunk is without an owning repository.
C22_ChunkOwnership ==
  \A c \in code_chunks :
    /\ c.repository_id \in repositories
    /\ c.file_path \in FilePaths

(* ------------------------ claims on the embedding --------------------- *)

\* C23: a retrieve call embeds the query text once: the embedding provider
\* is called at most once, by the step that precedes stage 1, and has been
\* called once when a stage runs; the query vector does not change after it
\* is set; and stage 1 and stage 2 (restricted or fallback) both rank against
\* that one vector, the embedding of the query text.
C23_SingleEmbedding ==
  /\ [](embed_calls <= 1)
  /\ [](pc \in {"stage1", "stage2", "rerank", "done", "cancelled"} =>
          embed_calls = 1 /\ query_vector = EmbeddingOf(req.query_text))
  /\ [][embed_calls' # embed_calls => pc = "embedding" /\ index_accesses = {}]_vars
  /\ [][query_vector' # query_vector => query_vector = NoVector /\ pc = "embedding"]_vars
  /\ [](pc \in {"stage2", "rerank", "done"} =>
          \E o \in Stage1(req, EmbeddingOf(req.query_text)) :
            candidates = {x.file_path : x \in Range(o.rows)})
  /\ [](pc \in {"rerank", "done"} =>
          \E o \in Stage2(req, EmbeddingOf(req.query_text), candidates) :
            stage2 = Dedup(o.rows))

\* a call has run both stages, stage 2 restricted to a candidate file, and
\* returned passages after one embedding
C23_Witness ==
  /\ pc = "done"
  /\ embed_calls = 1
  /\ index_accesses = {"stage1", "stage2"}
  /\ candidates # {}
  /\ passages # <<>>

(* ============================ the web client =========================== *)

\* chat requests sent in one behaviour
MaxSubmits == 2

(* ------------------------------- text ---------------------------------- *)

\* a text is the sequence of its characters; String.prototype.trim
Whitespace == {" "}

RECURSIVE trimStart(_)
trimStart(text) ==
  IF text # <<>> /\ Head(text) \in Whitespace THEN trimStart(Tail(text)) ELSE text

RECURSIVE trimEnd(_)
trimEnd(text) ==
  IF text # <<>> /\ text[Len(text)] \in Whitespace
  THEN trimEnd(SubSeq(text, 1, Len(text) - 1))
  ELSE text

trim(text) == trimEnd(trimStart(text))

\* what a user may have in the chat input: nothing, a blank, a question
Inputs == {<<>>, <<" ">>, <<"h", "i">>}

(* ------------------------- the event stream ---------------------------- *)

\* The server answers a chat request with a stream of lines "data: <json>"
\* and the marker line "data: [DONE]".  An event is named by what it carries.
Events == {"session", "status", "token_a", "token_b", "metadata", "done"}

\* JSON.parse of the data of an event line
Data(ev) ==
  CASE ev = "session" -> [type |-> "session", sessionId |-> "s1"]
    [] ev = "status" -> [type |-> "status", content |-> "Searching"]
    [] ev = "token_a" -> [type |-> "token", content |-> "a"]
    [] ev = "token_b" -> [type |-> "token", content |-> "b"]
    [] ev = "metadata" -> [type |-> "metadata", files |-> <<"x.py">>]

\* The text of a line is its first piece, "data: " and the beginning of the
\* data, then its second piece, the rest of the data, then a line feed.  A
\* network read may end after any piece.
LineFeed == [piece |-> "line feed", ev |-> "none"]
FirstPiece(ev) == [piece |-> "first", ev |-> ev]
SecondPiece(ev) == [piece |-> "second", ev |-> ev]
LineOf(ev) == <<FirstPiece(ev), SecondPiece(ev)>>

\* the beginning of the data of a line, as text: what is left of a first
\* piece once "data: " is taken off
DataStart(ev) ==
  CASE ev = "session" -> "{\"type\":\"sess"
    [] ev = "status" -> "{\"type\":\"stat"
    [] ev = "token_a" -> "{\"type\":\"token\",\"content\":\""
    [] ev = "token_b" -> "{\"type\":\"token\",\"content\":\"b"
    [] ev = "metadata" -> "{\"type\":\"meta"
    [] ev = "done" -> "[DO"

RECURSIVE TextOf(_)
TextOf(stream) ==
  IF stream = <<>> THEN <<>>
  ELSE LineOf(Head(stream)) \o <<LineFeed>> \o TextOf(Tail(stream))

\* the streams a server may send: a full answer; an answer with no session
\* event and no marker; events after the marker; nothing
Streams ==
  {<<"session", "token_a", "done">>,
   <<"token_a", "token_b">>,
   <<"done", "status", "metadata">>,
   <<>>}

\* chunk.split('\n')
RECURSIVE split(_)
split(chunk) ==
  IF \A i \in 1..Len(chunk) : chunk[i] # LineFeed THEN <<chunk>>
  ELSE LET i == CHOOSE k \in 1..Len(chunk) :
                  chunk[k] = LineFeed /\ \A j \in 1..(k - 1) : chunk[j] # LineFeed
       IN <<SubSeq(chunk, 1, i - 1)>> \o split(SubSeq(chunk, i + 1, Len(chunk)))

\* line.startsWith('data: ')
startsWithData(line) == line # <<>> /\ line[1].piece = "first"

\* dataStr === '[DONE]'
IsDoneMarker(line) == line = LineOf("done")

\* JSON.parse(dataStr) returns: the line is the whole line of an event
Parses(line) == \E ev \in Events \ {"done"} : line = LineOf(ev)

EventOf(line) == line[1].ev

(* ---------------------------- ChatInterface ---------------------------- *)

UserMessage(text) == [role |-> "user", content |-> text]

\* the updater of setMessages in the stream loop: the last message, when it
\* is the AI's, gets the content; otherwise a new AI message is appended
WithAiResponse(prev, aiResponse, message) ==
  IF prev # <<>> /\ prev[Len(prev)].role = "ai"
  THEN [prev EXCEPT ![Len(prev)].content = aiResponse]
  ELSE Append(prev, message)

\* what the stream loop reads and writes: the local aiResponse, the state it
\* sets, and whether it has met the marker
LoopState(submit) ==
  [aiResponse |-> submit.aiResponse, sawDone |-> submit.sawDone,
   messages |-> messages, currentStatus |-> currentStatus,
   currentSessionId |-> currentSessionId, activeFiles |-> activeFiles]

\* the body of the for loop for a line that is not the marker
HandleLine(line, st) ==
  IF ~startsWithData(line) THEN st
  ELSE IF Parses(line)
  THEN LET data == Data(EventOf(line))
       IN CASE data.type = "session" -> [st EXCEPT !.currentSessionId = data.sessionId]
            [] data.type = "status" -> [st EXCEPT !.currentStatus = data.content]
            [] data.type = "token" ->
                 LET aiResponse == Append(st.aiResponse, data.content)
                 IN [st EXCEPT !.aiResponse = aiResponse,
                               !.messages =
                                 WithAiResponse(st.messages, aiResponse,
                                   [role |-> "ai", content |-> aiResponse, latency |-> "1.2s"])]
            [] data.type = "metadata" -> [st EXCEPT !.activeFiles = data.files]
  ELSE \* JSON.parse throws: the data, as text, is added to the answer
       LET aiResponse == Append(st.aiResponse, DataStart(EventOf(line)))
       IN [st EXCEPT !.aiResponse = aiResponse,
                     !.messages =
                       WithAiResponse(st.messages, aiResponse,
                         [role |-> "ai", content |-> aiResponse])]

\* for (const line of lines): the marker breaks out of this loop
RECURSIVE ForLines(_, _)
ForLines(lines, st) ==
  IF lines = <<>> THEN st
  ELSE IF startsWithData(Head(lines)) /\ IsDoneMarker(Head(lines))
  THEN [st EXCEPT !.sawDone = TRUE]
  ELSE ForLines(Tail(lines), HandleLine(Head(lines), st))

\* the effect on [sessionId, isLoading]: after a render in which one of the
\* two has changed, fetchMessages is called for a session, and the messages
\* are emptied when there is none, unless a chat request is loading
EffectRuns(sid, loading) == sid # currentSessionId \/ loading # isLoading

MessagesAfterEffect(sid, loading, msgs) ==
  IF EffectRuns(sid, loading) /\ sid = Null /\ ~loading THEN <<>> ELSE msgs

FetchesAfterEffect(sid, loading) ==
  IF EffectRuns(sid, loading) /\ sid # Null /\ ~loading
  THEN fetches \cup {sid}
  ELSE fetches

Remove(s, i) == SubSeq(s, 1, i - 1) \o SubSeq(s, i + 1, Len(s))

Event(name) == [name |-> name]

\* the user types, or picks a prompt of the welcome screen
TypeInput ==
  /\ \E text \in Inputs : text # input /\ input' = text
  /\ ui_event' = Event("type")
  /\ UNCHANGED <<serverVars, homeVars, messages, isLoading, currentStatus, submits, fetches,
                 submitted, repoVars, sidebarVars>>

\* mutant: a request is sent while another is loading
Mut_handleSubmit_while_loading(e) ==
  /\ ui_event' = e
  /\ trim(input) # <<>> => submitted < MaxSubmits
  /\ IF trim(input) = <<>>
     THEN UNCHANGED <<messages, input, isLoading, currentStatus, submits, submitted>>
     ELSE /\ messages' = Append(messages, UserMessage(input))
          /\ input' = <<>>
          /\ isLoading' = TRUE
          /\ currentStatus' = "Thinking..."
          /\ submits' = Append(submits, [query |-> input, phase |-> "fetch", stream |-> <<>>,
                                         wire |-> <<>>, aiResponse |-> <<>>, sawDone |-> FALSE])
          /\ submitted' = submitted + 1
  /\ UNCHANGED <<serverVars, homeVars, fetches, repoVars, sidebarVars>>

\* handleSubmit, up to its first await: the guard, the user's message, the
\* loading state, the request
handleSubmit(e) ==
  /\ ui_event' = e
  /\ (trim(input) # <<>> /\ ~isLoading) => submitted < MaxSubmits
  /\ IF trim(input) = <<>> \/ isLoading
     THEN UNCHANGED <<messages, input, isLoading, currentStatus, submits, submitted>>
     ELSE /\ messages' = Append(messages, UserMessage(input))
          /\ input' = <<>>
          /\ isLoading' = TRUE
          /\ currentStatus' = "Thinking..."
          /\ submits' = Append(submits, [query |-> input, phase |-> "fetch", stream |-> <<>>,
                                         wire |-> <<>>, aiResponse |-> <<>>, sawDone |-> FALSE])
          /\ submitted' = submitted + 1
  /\ UNCHANGED <<serverVars, homeVars, fetches, repoVars, sidebarVars>>

\* the SEND button, enabled when there is a text and no request is loading
ClickSend ==
  /\ ~(trim(input) = <<>> \/ isLoading)
  /\ handleSubmit(Event("click send"))

\* Enter in the chat input
PressEnter == handleSubmit(Event("press enter"))

\* finally: the loading state is released, and the effect runs
Finally(i) ==
  /\ submits' = Remove(submits, i)
  /\ isLoading' = FALSE
  /\ currentStatus' = Null
  /\ messages' = MessagesAfterEffect(currentSessionId, FALSE, messages)
  /\ fetches' = FetchesAfterEffect(currentSessionId, FALSE)
  /\ UNCHANGED <<serverVars, homeVars, input, submitted, repoVars, sidebarVars>>

\* the response arrives, with a body to read
ResponseArrives ==
  \E i \in DOMAIN submits, stream \in Streams :
    /\ submits[i].phase = "fetch"
    /\ submits' = [submits EXCEPT ![i].phase = "read", ![i].stream = stream,
                                  ![i].wire = TextOf(stream)]
    /\ ui_event' = Event("answer")
    /\ UNCHANGED <<serverVars, homeVars, messages, input, isLoading, currentStatus, fetches,
                   submitted, repoVars, sidebarVars>>

\* the response has no body: handleSubmit returns
ResponseWithoutBody ==
  \E i \in DOMAIN submits :
    /\ submits[i].phase = "fetch"
    /\ ui_event' = Event("answer")
    /\ Finally(i)

\* fetch rejects
FetchRejects ==
  \E i \in DOMAIN submits :
    /\ submits[i].phase = "fetch"
    /\ ui_event' = Event("answer")
    /\ Finally(i)

\* reader.read() gives the next chunk of the stream, of any length, and the
\* for loop handles its lines
Read ==
  \E i \in DOMAIN submits :
    /\ submits[i].phase = "read"
    /\ \E n \in 1..Len(submits[i].wire) :
         LET chunk == SubSeq(submits[i].wire, 1, n)
             st == ForLines(split(chunk), LoopState(submits[i]))
         IN /\ submits' = [submits EXCEPT
                             ![i].wire = SubSeq(submits[i].wire, n + 1, Len(submits[i].wire)),
                             ![i].aiResponse = st.aiResponse,
                             ![i].sawDone = st.sawDone]
            /\ currentStatus' = st.currentStatus
            /\ currentSessionId' = st.currentSessionId
            /\ activeFiles' = st.activeFiles
            /\ messages' = MessagesAfterEffect(st.currentSessionId, isLoading, st.messages)
            /\ fetches' = FetchesAfterEffect(st.currentSessionId, isLoading)
    /\ ui_event' = Event("answer")
    /\ UNCHANGED <<serverVars, activeRepoId, input, isLoading, submitted, repoVars, sidebarVars>>

\* reader.read() reports the end of the stream
ReadDone ==
  \E i \in DOMAIN submits :
    /\ submits[i].phase = "read"
    /\ submits[i].wire = <<>>
    /\ ui_event' = Event("answer")
    /\ Finally(i)

\* mutant: an error while reading is caught and the loading state is kept
Mut_ReadThrows_keeps_loading ==
  \E i \in DOMAIN submits :
    /\ submits[i].phase = "read"
    /\ ui_event' = Event("answer")
    /\ submits' = Remove(submits, i)
    /\ UNCHANGED <<serverVars, homeVars, messages, input, isLoading, currentStatus, fetches,
                   submitted, repoVars, sidebarVars>>

\* reader.read() rejects
ReadThrows ==
  \E i \in DOMAIN submits :
    /\ submits[i].phase = "read"
    /\ ui_event' = Event("answer")
    /\ Finally(i)

\* what the server has stored for a session
History(sid) ==
  <<[role |-> "user", content |-> <<"h", "i">>, id |-> "m1"],
    [role |-> "ai", content |-> <<"a", "b">>, id |-> "m2"]>>

\* fetchMessages gets its answer: the messages of the session, or data that
\* is not an array, or the fetch rejects
FetchMessagesAnswered ==
  \E sid \in fetches :
    /\ fetches' = fetches \ {sid}
    /\ \/ messages' = History(sid)
       \/ messages' = messages
    /\ ui_event' = Event("answer")
    /\ UNCHANGED <<serverVars, homeVars, input, isLoading, currentStatus, submits, submitted,
                   repoVars, sidebarVars>>

InitChat ==
  /\ Installed
  /\ code_chunks = {}
  /\ file_summaries = {}
  /\ NoSearch
  /\ pc = "idle"
  /\ req = NoRequest
  /\ NotStarted
  /\ ClientIdle

NextChat ==
  \/ TypeInput
  \/ ClickSend
  \/ PressEnter
  \/ ResponseArrives
  \/ ResponseWithoutBody
  \/ FetchRejects
  \/ Read
  \/ ReadDone
  \/ ReadThrows
  \/ FetchMessagesAnswered

SpecChat == InitChat /\ [][NextChat]_vars

\* an answer of the network to a chat request: the assumption that a fetch
\* gets its response or rejects, and that a stream is read to its end or fails
ChatAnswer ==
  \/ ResponseArrives
  \/ ResponseWithoutBody
  \/ FetchRejects
  \/ Read
  \/ ReadDone
  \/ ReadThrows

SpecChatFair == SpecChat /\ WF_vars(ChatAnswer)

(* ---------------------- claims on ChatInterface ------------------------ *)

\* C24: handleSubmit, called by the SEND button or by Enter, appends no
\* message and sends no request when the input is empty or blank or while a
\* chat request is loading; a request is sent only when there is a text and
\* nothing is loading; so at most one chat request is in progress.
C24_SubmitGuard ==
  /\ [](Len(submits) <= 1)
  /\ [][(/\ ui_event'.name \in {"click send", "press enter"}
         /\ trim(input) = <<>> \/ isLoading)
          => (messages' = messages /\ submits' = submits /\ submitted' = submitted)]_vars
  /\ [][Len(submits') > Len(submits) => (trim(input) # <<>> /\ ~isLoading)]_vars

\* Enter was pressed on a text while a request was loading, and there is
\* still one request
C24_Witness ==
  /\ ui_event = Event("press enter")
  /\ isLoading
  /\ trim(input) # <<>>
  /\ Len(submits) = 1

\* C25: the loading state is on exactly while a handleSubmit call has not
\* returned; whenever it is on it is later off with no status line, whatever
\* the answer (a stream read to its end, no body, a rejected fetch, a failed
\* read); and the step that turns it off clears the status line.
C25_LoadingReleased ==
  /\ [](isLoading <=> submits # <<>>)
  /\ [][(isLoading /\ ~isLoading') => currentStatus' = Null]_vars
  /\ isLoading ~> (~isLoading /\ currentStatus = Null)

\* a request was sent and has returned: nothing is loading
C25_Witness ==
  /\ submitted >= 1
  /\ ui_event = Event("answer")
  /\ submits = <<>>
  /\ ~isLoading
  /\ currentStatus = Null

\* the step in which the call submits[i] returns
Returns(i) == submits' = Remove(submits, i)

HasMessage(msgs, role, content) ==
  \E j \in 1..Len(msgs) : msgs[j].role = role /\ msgs[j].content = content

\* C26: when a handleSubmit call returns, the messages displayed hold the
\* user's message and, when tokens came, the AI's reply, or they are the
\* history of the session.
C26_ConversationKept ==
  [][\A i \in DOMAIN submits :
       Returns(i) =>
         \/ /\ HasMessage(messages', "user", submits[i].query)
            /\ submits[i].aiResponse # <<>> =>
                 HasMessage(messages', "ai", submits[i].aiResponse)
         \/ currentSessionId' # Null /\ messages' = History(currentSessionId')]_vars

\* the events of a stream that come before the marker
RECURSIVE BeforeDone(_)
BeforeDone(stream) ==
  IF stream = <<>> \/ Head(stream) = "done" THEN <<>>
  ELSE <<Head(stream)>> \o BeforeDone(Tail(stream))

\* the contents of the token events of a stream, in order
RECURSIVE TokenContents(_)
TokenContents(stream) ==
  IF stream = <<>> THEN <<>>
  ELSE (IF Data(Head(stream)).type = "token" THEN <<Data(Head(stream)).content>> ELSE <<>>)
         \o TokenContents(Tail(stream))

\* C27: once the first request of a conversation has read its whole stream,
\* however the stream was cut into reads, the answer is the contents of the
\* token events sent before the marker, in order, and the messages are the
\* user's message and, when there was a token, one AI message with that answer.
C27_TokenDelivery ==
  \A i \in DOMAIN submits :
    (submitted = 1 /\ submits[i].phase = "read" /\ submits[i].wire = <<>>) =>
      LET tokens == TokenContents(BeforeDone(submits[i].stream))
      IN /\ submits[i].aiResponse = tokens
         /\ messages =
              <<UserMessage(submits[i].query)>> \o
                (IF tokens = <<>> THEN <<>>
                 ELSE <<[role |-> "ai", content |-> tokens, latency |-> "1.2s"]>>)

\* C28: once a call has handled the marker line, no read of the rest of its
\* stream changes the messages, the status line, the session or the active
\* files.
C28_DoneEndsProcessing ==
  [][\A i \in DOMAIN submits :
       (/\ submits[i].sawDone
        /\ Len(submits') = Len(submits)
        /\ submits'[i].wire # submits[i].wire)
         => /\ messages' = messages
            /\ currentStatus' = currentStatus
            /\ currentSessionId' = currentSessionId
            /\ activeFiles' = activeFiles]_vars

(* --------------------- ChatInterface: handleIngest --------------------- *)

\* ingestion requests in progress at once
MaxIngests == 2

\* A repository URL is the sequence of its parts: a scheme, "www.", the host
\* with its slash, names, slashes, blanks.
Schemes == {"http://", "https://"}
\* texts that match [\w.-]+
UrlNames == {"owner", "repo"}

\* what a user may have in the repository URL input
RepoUrlInputs ==
  {<<>>,
   <<" ">>,
   <<"https://", "github.com/", "owner", "/", "repo">>,
   <<"www.", "github.com/", "owner", "/", "repo", "/">>,
   <<"https://", "gitlab.com/", "owner", "/", "repo">>,
   <<"https://", "github.com/", "owner">>,
   <<" ", "https://", "github.com/", "owner", "/", "repo">>}

\* /^(https?:\/\/)?(www\.)?github\.com\/[\w.-]+\/[\w.-]+\/?$/.test(url)
validateGithubUrl(url) ==
  LET afterScheme == IF url # <<>> /\ Head(url) \in Schemes THEN Tail(url) ELSE url
      afterWww == IF afterScheme # <<>> /\ Head(afterScheme) = "www."
                  THEN Tail(afterScheme)
                  ELSE afterScheme
  IN /\ Len(afterWww) \in {4, 5}
     /\ afterWww[1] = "github.com/"
     /\ afterWww[2] \in UrlNames
     /\ afterWww[3] = "/"
     /\ afterWww[4] \in UrlNames
     /\ Len(afterWww) = 5 => afterWww[5] = "/"

\* repoUrlInput.split('/').pop() || 'repository'
RepoName(url) ==
  IF url = <<>> \/ url[Len(url)] \in {"/", "github.com/"} \cup Schemes
  THEN "repository"
  ELSE url[Len(url)]

BlankUrlError == "Please enter a repository URL"
InvalidUrlError == "Please enter a valid GitHub repository URL (e.g., https://github.com/owner/repo)"

\* handleIngest, up to its first await: the two checks of the URL, then the
\* request; it does not look at isIngesting
handleIngest(e) ==
  /\ ui_event' = e
  /\ (trim(repoUrlInput) # <<>> /\ validateGithubUrl(repoUrlInput)) => Len(ingests) < MaxIngests
  /\ IF trim(repoUrlInput) = <<>>
     THEN urlError' = BlankUrlError /\ UNCHANGED <<isIngesting, ingests>>
     ELSE IF ~validateGithubUrl(repoUrlInput)
     THEN urlError' = InvalidUrlError /\ UNCHANGED <<isIngesting, ingests>>
     ELSE /\ urlError' = Null
          /\ isIngesting' = TRUE
          /\ ingests' = Append(ingests, [repoUrlInput |-> repoUrlInput])
  /\ UNCHANGED <<serverVars, homeVars, chatVars, repoUrlInput, showRepoModal, sidebarVars>>

\* the ATTACH REPO button
OpenRepoModal ==
  /\ ~showRepoModal
  /\ repoUrlInput' = <<>>
  /\ urlError' = Null
  /\ showRepoModal' = TRUE
  /\ ui_event' = Event("attach repo")
  /\ UNCHANGED <<serverVars, homeVars, chatVars, isIngesting, ingests, sidebarVars>>

\* the modal's Cancel button, its cross, its backdrop
CloseRepoModal ==
  /\ showRepoModal
  /\ showRepoModal' = FALSE
  /\ ui_event' = Event("close repo modal")
  /\ UNCHANGED <<serverVars, homeVars, chatVars, repoUrlInput, urlError, isIngesting, ingests,
                 sidebarVars>>

TypeRepoUrl ==
  /\ showRepoModal
  /\ \E url \in RepoUrlInputs : url # repoUrlInput /\ repoUrlInput' = url
  /\ ui_event' = Event("type url")
  /\ UNCHANGED <<serverVars, homeVars, chatVars, urlError, showRepoModal, isIngesting, ingests,
                 sidebarVars>>

\* the modal's confirm button, disabled while isIngesting
ClickStartIngestion ==
  /\ showRepoModal
  /\ ~isIngesting
  /\ handleIngest(Event("click start ingestion"))

\* Enter in the URL input
PressEnterInUrl ==
  /\ showRepoModal
  /\ handleIngest(Event("press enter in url"))

\* the server has started the ingestion
IngestOk ==
  \E i \in DOMAIN ingests, repoId \in Repositories :
    /\ ingests' = Remove(ingests, i)
    /\ activeRepoId' = repoId
    /\ showRepoModal' = FALSE
    /\ repoUrlInput' = <<>>
    /\ messages' = <<[role |-> "ai",
                      content |-> <<"Successfully connected to ",
                                    RepoName(ingests[i].repoUrlInput), "!">>,
                      latency |-> "0.2s"]>>
    /\ currentStatus' = "INGESTION STARTED..."
    /\ isIngesting' = FALSE
    /\ ui_event' = Event("answer")
    /\ UNCHANGED <<serverVars, currentSessionId, activeFiles, input, isLoading, submits,
                   fetches, submitted, urlError, sidebarVars>>

\* the server refuses, with a detail or without
IngestNotOk ==
  \E i \in DOMAIN ingests, detail \in {"Repository not found", "Failed to start ingestion"} :
    /\ ingests' = Remove(ingests, i)
    /\ urlError' = detail
    /\ isIngesting' = FALSE
    /\ ui_event' = Event("answer")
    /\ UNCHANGED <<serverVars, homeVars, chatVars, repoUrlInput, showRepoModal, sidebarVars>>

\* the fetch rejects, or the answer is no JSON
IngestRejects ==
  \E i \in DOMAIN ingests :
    /\ ingests' = Remove(ingests, i)
    /\ urlError' = "An error occurred. Please try again."
    /\ isIngesting' = FALSE
    /\ ui_event' = Event("answer")
    /\ UNCHANGED <<serverVars, homeVars, chatVars, repoUrlInput, showRepoModal, sidebarVars>>

NextIngest ==
  \/ OpenRepoModal
  \/ CloseRepoModal
  \/ TypeRepoUrl
  \/ ClickStartIngestion
  \/ PressEnterInUrl
  \/ IngestOk
  \/ IngestNotOk
  \/ IngestRejects

SpecIngest == InitChat /\ [][NextIngest]_vars

\* C29: at most one ingestion request is in progress, and none is started
\* while isIngesting is true; handleIngest starts a request only for a URL
\* that is not blank and matches the GitHub pattern, and otherwise sets
\* urlError and leaves isIngesting, activeRepoId, the modal and the messages
\* as they were.
C29_SingleIngestion ==
  /\ [](Len(ingests) <= 1)
  /\ [][Len(ingests') > Len(ingests) =>
          /\ ~isIngesting
          /\ trim(repoUrlInput) # <<>>
          /\ validateGithubUrl(repoUrlInput)]_vars
  /\ [][(/\ ui_event'.name \in {"click start ingestion", "press enter in url"}
         /\ trim(repoUrlInput) = <<>> \/ ~validateGithubUrl(repoUrlInput))
          => /\ urlError' \in {BlankUrlError, InvalidUrlError}
             /\ UNCHANGED <<isIngesting, activeRepoId, showRepoModal, messages, ingests>>]_vars

\* the half of C29 on the checks of the URL
C29_UrlChecked ==
  /\ [][Len(ingests') > Len(ingests) =>
          /\ trim(repoUrlInput) # <<>>
          /\ validateGithubUrl(repoUrlInput)]_vars
  /\ [][(/\ ui_event'.name \in {"click start ingestion", "press enter in url"}
         /\ trim(repoUrlInput) = <<>> \/ ~validateGithubUrl(repoUrlInput))
          => /\ urlError' \in {BlankUrlError, InvalidUrlError}
             /\ UNCHANGED <<isIngesting, activeRepoId, showRepoModal, messages, ingests>>]_vars

(* ------------------------------ Sidebar -------------------------------- *)

\* the sessions the history of the user holds
SessionList == <<[id |-> "s1"], [id |-> "s2"]>>

\* sessions.filter((s) => s.id !== sessionToDelete)
RECURSIVE WithoutSession(_, _)
WithoutSession(list, id) ==
  IF list = <<>> THEN <<>>
  ELSE (IF Head(list).id # id THEN <<Head(list)>> ELSE <<>>) \o WithoutSession(Tail(list), id)

\* the Delete Chat modal is open: it covers the page
DeleteModalOpen == sessionToDelete # Null

\* Home's setCurrentSessionId, and the effect of ChatInterface that follows
SetCurrentSessionId(sid) ==
  /\ currentSessionId' = sid
  /\ messages' = MessagesAfterEffect(sid, isLoading, messages)
  /\ fetches' = FetchesAfterEffect(sid, isLoading)

\* a session of the list is clicked
SelectSession ==
  /\ ~DeleteModalOpen
  /\ \E i \in DOMAIN sessions : SetCurrentSessionId(sessions[i].id)
  /\ ui_event' = Event("select session")
  /\ UNCHANGED <<serverVars, activeRepoId, activeFiles, input, isLoading, currentStatus, submits,
                 submitted, repoVars, sidebarVars>>

\* the NEW CHAT button
NewChat ==
  /\ ~DeleteModalOpen
  /\ SetCurrentSessionId(Null)
  /\ ui_event' = Event("new chat")
  /\ UNCHANGED <<serverVars, activeRepoId, activeFiles, input, isLoading, currentStatus, submits,
                 submitted, repoVars, sidebarVars>>

\* the bin of a session: handleDeleteClick
DeleteClick ==
  /\ ~DeleteModalOpen
  /\ \E i \in DOMAIN sessions : sessionToDelete' = sessions[i].id
  /\ ui_event' = Event("delete click")
  /\ UNCHANGED <<serverVars, homeVars, chatVars, repoVars, sessions, isDeleting, deletes>>

\* the modal's Cancel button, its cross, its backdrop
CloseDeleteModal ==
  /\ DeleteModalOpen
  /\ sessionToDelete' = Null
  /\ ui_event' = Event("close delete modal")
  /\ UNCHANGED <<serverVars, homeVars, chatVars, repoVars, sessions, isDeleting, deletes>>

\* the modal's Delete button, disabled while isDeleting: confirmDelete up to
\* its await; the call keeps the sessionToDelete, sessions and
\* currentSessionId of the render it was made in
confirmDelete ==
  /\ DeleteModalOpen
  /\ ~isDeleting
  /\ isDeleting' = TRUE
  /\ deletes' = Append(deletes, [sessionToDelete |-> sessionToDelete, sessions |-> sessions,
                                 currentSessionId |-> currentSessionId])
  /\ ui_event' = Event("click delete")
  /\ UNCHANGED <<serverVars, homeVars, chatVars, repoVars, sessions, sessionToDelete>>

\* the server has deleted the session
DeleteOk ==
  \E i \in DOMAIN deletes :
    /\ deletes' = Remove(deletes, i)
    /\ sessions' = WithoutSession(deletes[i].sessions, deletes[i].sessionToDelete)
    /\ IF deletes[i].currentSessionId = deletes[i].sessionToDelete
       THEN SetCurrentSessionId(Null)
       ELSE UNCHANGED <<currentSessionId, messages, fetches>>
    /\ isDeleting' = FALSE
    /\ sessionToDelete' = Null
    /\ ui_event' = Event("delete ok")
    /\ UNCHANGED <<serverVars, activeRepoId, activeFiles, input, isLoading, currentStatus,
                   submits, submitted, repoVars>>

\* the server answers with an error status
DeleteNotOk ==
  \E i \in DOMAIN deletes :
    /\ deletes' = Remove(deletes, i)
    /\ isDeleting' = FALSE
    /\ sessionToDelete' = Null
    /\ ui_event' = Event("delete not ok")
    /\ UNCHANGED <<serverVars, homeVars, chatVars, repoVars, sessions>>

\* the fetch rejects
DeleteRejects ==
  \E i \in DOMAIN deletes :
    /\ deletes' = Remove(deletes, i)
    /\ isDeleting' = FALSE
    /\ sessionToDelete' = Null
    /\ ui_event' = Event("delete rejects")
    /\ UNCHANGED <<serverVars, homeVars, chatVars, repoVars, sessions>>

\* the page with the history of the user listed
InitSidebar ==
  /\ Installed
  /\ code_chunks = {}
  /\ file_summaries = {}
  /\ NoSearch
  /\ pc = "idle"
  /\ req = NoRequest
  /\ NotStarted
  /\ currentSessionId = Null
  /\ activeRepoId = Null
  /\ activeFiles = <<>>
  /\ messages = <<>>
  /\ input = <<>>
  /\ repoUrlInput = <<>>
  /\ urlError = Null
  /\ showRepoModal = FALSE
  /\ isLoading = FALSE
  /\ isIngesting = FALSE
  /\ currentStatus = Null
  /\ submits = <<>>
  /\ fetches = {}
  /\ ingests = <<>>
  /\ sessions = SessionList
  /\ sessionToDelete = Null
  /\ isDeleting = FALSE
  /\ deletes = <<>>
  /\ ui_event = NoEvent
  /\ submitted = 0

NextSidebar ==
  \/ SelectSession
  \/ NewChat
  \/ DeleteClick
  \/ CloseDeleteModal
  \/ confirmDelete
  \/ DeleteOk
  \/ DeleteNotOk
  \/ DeleteRejects

SpecSidebar == InitSidebar /\ [][NextSidebar]_vars

(* ------------------------- claims on Sidebar --------------------------- *)

\* the step is the answer to the DELETE request of deletes[i]
Answered(i) == deletes' = Remove(deletes, i)

\* C30: the list of sessions changes only in the step that handles a
\* successful answer to a DELETE request, which removes the session asked
\* about, and then the current session, if it is that session, becomes null;
\* a failed or rejected request changes neither the list nor the current
\* session; and every answer leaves sessionToDelete null and isDeleting false.
C30_SessionDeletion ==
  /\ [][sessions' # sessions =>
          /\ ui_event' = Event("delete ok")
          /\ \E i \in DOMAIN deletes :
               /\ Answered(i)
               /\ sessions' = WithoutSession(sessions, deletes[i].sessionToDelete)]_vars
  /\ [][\A i \in DOMAIN deletes :
          (Answered(i) /\ ui_event' = Event("delete ok")
             /\ currentSessionId = deletes[i].sessionToDelete)
            => currentSessionId' = Null]_vars
  /\ [][(\E i \in DOMAIN deletes : Answered(i)) /\ ui_event' # Event("delete ok")
          => (sessions' = sessions /\ currentSessionId' = currentSessionId)]_vars
  /\ [][(\E i \in DOMAIN deletes : Answered(i))
          => (sessionToDelete' = Null /\ ~isDeleting')]_vars

\* C30 with "the current session" read as the one shown when Delete was
\* clicked
C30_AsClicked ==
  /\ [][sessions' # sessions =>
          /\ ui_event' = Event("delete ok")
          /\ \E i \in DOMAIN deletes :
               /\ Answered(i)
               /\ sessions' = WithoutSession(sessions, deletes[i].sessionToDelete)]_vars
  /\ [][\A i \in DOMAIN deletes :
          (Answered(i) /\ ui_event' = Event("delete ok")
             /\ deletes[i].currentSessionId = deletes[i].sessionToDelete)
            => currentSessionId' = Null]_vars
  /\ [][(\E i \in DOMAIN deletes : Answered(i)) /\ ui_event' # Event("delete ok")
          => (sessions' = sessions /\ currentSessionId' = currentSessionId)]_vars
  /\ [][(\E i \in DOMAIN deletes : Answered(i))
          => (sessionToDelete' = Null /\ ~isDeleting')]_vars

====
